---- MODULE Spec2Model ----
(***************************************************************************)
(* A model of the JSON-RPC 2.0 processor (src/src/core/jsonrpc.py), of the *)
(* Kafka transport adapter's send path and consume loop                    *)
(* (src/src/streaming/kafka_client.py) and of the three-stage ticket flow  *)
(* (src/src/streaming/data_flow_manager.py) and of the dashboard's demo    *)
(* loop (src/src/ui/dashboard.py).                                         *)
(*                                                                         *)
(* The specifications of the module share its variables:                   *)
(*   SpecFlow        concurrent process_complete_ticket_flow invocations   *)
(*   SpecRpc         calls of the JsonRpcProcessor operations              *)
(*   SpecConsume     one KafkaClient.consume_messages call, its poll loop  *)
(*   SpecDemo        the flow and consume_messages on a demo-mode client   *)
(*   SpecDispatch    concurrent process_request calls, step by step        *)
(*   SpecRegistry    the same, interleaved with register_method calls      *)
(*   SpecEscalation  TicketProcessingRpcService.check_escalation           *)
(*   SpecSend        the encoding chosen by KafkaClient.send_message       *)
(*   SpecTicket      key and ticket_id of the messages of concurrent flows *)
(*   SpecDash        start_demo, stop_demo, the demo loop threads and      *)
(*                   analyze_manual_message                                *)
(***************************************************************************)
EXTENDS Integers, Sequences, FiniteSets, TLC

VARIABLES
    dfmDemo,     \* DataFlowManager.demo_mode
    kcDemo,      \* KafkaClient.demo_mode (may fall back to TRUE on its own)
    fpc,         \* fpc[i]: position of invocation i of process_complete_ticket_flow
    fin,         \* fin[i]: the three payloads invocation i was called with
    sent,        \* sent[i]: the stage sends invocation i has made, in order
    fret,        \* fret[i]: the bool returned by invocation i (read when fpc[i] = "done")
    flog,        \* flog[i]: the logger.error records written for invocation i
    methods,     \* JsonRpcProcessor.methods
    middleware,  \* JsonRpcProcessor.middleware
    rpcOut,      \* the last processor operation: its input and what it gave back
    kcMode,      \* the codec KafkaClient uses: use_schema_registry, the
                 \* registry class and use_jsonrpc in one value
    cpc,         \* position of the consume_messages call
    clog,        \* what each poll of the consume loop returned and led to
    disp,        \* disp[d]: the process_request call running on worker d
    kcOut,       \* the last KafkaClient.send_message call: its input and the value produced
    dfmOut,      \* dfmOut[c]: caller c's process_complete_ticket_flow call: its
                 \* position, its tickets and the messages it has sent
    dash         \* SentimentDashboard: is_running, its _demo_loop threads,
                 \* messages_sent and the UI thread's analyze_manual_message call

flowVars == <<dfmDemo, kcDemo, fpc, fin, sent, fret, flog>>
rpcVars == <<methods, middleware, rpcOut>>
consVars == <<kcMode, cpc, clog>>
lateVars == <<disp, kcOut, dfmOut, dash>>
vars == <<dfmDemo, kcDemo, fpc, fin, sent, fret, flog,
          methods, middleware, rpcOut, kcMode, cpc, clog,
          disp, kcOut, dfmOut, dash>>

(***************************************************************************)
(* Bounds                                                                  *)
(***************************************************************************)
\* number of process_complete_ticket_flow invocations that may run concurrently
NFlows == 2

\* longest middleware chain
MaxMiddleware == 2

\* number of distinct values uuid.uuid4() may draw
NUuids == 2

\* number of polls of the consume loop that are followed
MaxPolls == 2

\* number of worker threads that dispatch on one processor
NWorkers == 2

\* number of demo loop threads the dashboard starts
MaxLoops == 2

\* number of tickets the demo loops send
MaxBatches == 2

Flows == 1..NFlows

Last(s) == s[Len(s)]

(***************************************************************************)
(* Payloads of the flow, by the protocol they support.                     *)
(*   "dict"     a mapping: supports ** unpacking and .get                  *)
(*   "getonly"  an object with a .get method that is not a mapping         *)
(*   "other"    neither (None, a list, a string, ...)                      *)
(***************************************************************************)
PayloadKinds == {"dict", "getonly", "other"}

HasGet(k) == k \in {"dict", "getonly"}

IsMapping(k) == k = "dict"

(***************************************************************************)
(* What the broker and the codec do with one live send: the environment's  *)
(* choice.                                                                  *)
(***************************************************************************)
TransportConds == {"ok", "encode_fault", "produce_fault", "delivery_failed"}

\* KafkaClient._delivery_callback: logs the delivery report, raises nothing.
delivery_callback(cond) ==
    [raised |-> FALSE, delivered |-> cond = "ok"]

\* send_message without the demo-mode return: it always produces.
send_message_IgnoresDemo(demo, cond) ==
    CASE cond \in {"encode_fault", "produce_fault"} ->
            [raised |-> FALSE, outcome |-> "send_exception"]
      [] OTHER -> [raised |-> FALSE,
                   outcome |-> IF cond = "ok" THEN "delivered" ELSE "delivery_failed"]

\* KafkaClient.send_message: returns None on every path.  In demo mode it
\* returns before any I/O.  Otherwise the whole body runs inside
\* try/except Exception, whose handler only logs: an encoding fault
\* (json.dumps), a produce/flush fault and a failed delivery report all end
\* in a normal return.
send_message(demo, cond) ==
    IF demo
    THEN [raised |-> FALSE, outcome |-> "simulated"]
    ELSE CASE cond = "encode_fault"  -> [raised |-> FALSE, outcome |-> "send_exception"]
           [] cond = "produce_fault" -> [raised |-> FALSE, outcome |-> "send_exception"]
           [] OTHER -> [raised |-> delivery_callback(cond).raised,
                        outcome |-> IF delivery_callback(cond).delivered
                                    THEN "delivered" ELSE "delivery_failed"]

\* The common body of send_raw_ticket / send_processed_ticket /
\* send_ai_response: enrich the payload ({**payload, ...} raises TypeError for
\* a non-mapping), call kafka_client.send_message unless demo_mode, return
\* True; any exception is logged and turned into False.
StageSend(stage, kind, dfm, kc, cond) ==
    IF ~IsMapping(kind)
    THEN [stage |-> stage, outcome |-> "enrich_fault", returned |-> FALSE]
    ELSE IF ~dfm
    THEN [stage |-> stage, outcome |-> send_message(kc, cond).outcome,
          returned |-> ~send_message(kc, cond).raised]
    ELSE [stage |-> stage, outcome |-> "demo", returned |-> TRUE]

send_raw_ticket(kind, dfm, kc, cond) == StageSend(1, kind, dfm, kc, cond)

send_processed_ticket(kind, dfm, kc, cond) == StageSend(2, kind, dfm, kc, cond)

send_ai_response(kind, dfm, kc, cond) == StageSend(3, kind, dfm, kc, cond)

\* The logger.error record a stage's send function writes when it fails.
StageErrorLog(stage) ==
    CASE stage = 1 -> "Failed to send raw ticket"
      [] stage = 2 -> "Failed to send processed ticket"
      [] OTHER -> "Failed to send AI response"

\* The logger.error record process_complete_ticket_flow writes when the
\* send of a stage returned False.
StepErrorLog(stage) ==
    CASE stage = 1 -> "Failed at step 1 (raw ticket)"
      [] stage = 2 -> "Failed at step 2 (processed ticket)"
      [] OTHER -> "Failed at step 3 (AI response)"

\* Steps 2 and 3 exchanged: raw, then AI-response, then processed.
AfterStage_Swapped(stage) ==
    CASE stage = 1 -> "step3"
      [] stage = 3 -> "step2"
      [] OTHER -> "done"

\* The position after the send of `stage` returned True.
AfterStage(stage) ==
    CASE stage = 1 -> "step2"
      [] stage = 2 -> "step3"
      [] OTHER -> "done"

(***************************************************************************)
(* process_complete_ticket_flow, one action per position.                  *)
(***************************************************************************)
\* Entry: raw_ticket.get('ticket_id') and raw_ticket.get('source').  An
\* object without .get raises AttributeError into the outer handler.
FlowCall(i, raw, processed, ai) ==
    /\ fpc[i] = "idle"
    /\ fin' = [fin EXCEPT ![i] = [raw |-> raw, processed |-> processed, ai |-> ai]]
    /\ IF HasGet(raw)
       THEN /\ fpc' = [fpc EXCEPT ![i] = "step1"]
            /\ UNCHANGED <<fret, flog>>
       ELSE /\ fpc' = [fpc EXCEPT ![i] = "done"]
            /\ fret' = [fret EXCEPT ![i] = FALSE]
            /\ flog' = [flog EXCEPT ![i] = Append(@, "Complete flow processing failed")]
    /\ UNCHANGED <<dfmDemo, kcDemo, sent, rpcVars, consVars, lateVars>>

\* What follows the send of a stage: the record of the send, and either the
\* next position or the early `return False`.
FlowAfterSend(i, r) ==
    /\ sent' = [sent EXCEPT ![i] = Append(@, r)]
    /\ IF r.returned
       THEN /\ fpc' = [fpc EXCEPT ![i] = AfterStage(r.stage)]
            /\ fret' = [fret EXCEPT ![i] = (AfterStage(r.stage) = "done")]
            /\ flog' = flog
       ELSE /\ fpc' = [fpc EXCEPT ![i] = "done"]
            /\ fret' = [fret EXCEPT ![i] = FALSE]
            /\ flog' = [flog EXCEPT ![i] =
                          @ \o <<StageErrorLog(r.stage), StepErrorLog(r.stage)>>]
    /\ UNCHANGED <<dfmDemo, kcDemo, fin, rpcVars, consVars, lateVars>>

\* Step 1: if not self.send_raw_ticket(raw_ticket): return False
FlowStep1(i, cond) ==
    /\ fpc[i] = "step1"
    /\ FlowAfterSend(i, send_raw_ticket(fin[i].raw, dfmDemo, kcDemo, cond))

\* Step 2: if not self.send_processed_ticket(processed_ticket): return False
FlowStep2(i, cond) ==
    /\ fpc[i] = "step2"
    /\ FlowAfterSend(i, send_processed_ticket(fin[i].processed, dfmDemo, kcDemo, cond))

\* Step 3: build ai_response_with_ticket_id ({**ai_response, ...} raises
\* TypeError for a non-mapping, caught by the outer handler), then
\* if not self.send_ai_response(...): return False; return True.
FlowStep3(i, cond) ==
    /\ fpc[i] = "step3"
    /\ IF IsMapping(fin[i].ai)
       THEN FlowAfterSend(i, send_ai_response("dict", dfmDemo, kcDemo, cond))
       ELSE /\ fpc' = [fpc EXCEPT ![i] = "done"]
            /\ fret' = [fret EXCEPT ![i] = FALSE]
            /\ flog' = [flog EXCEPT ![i] = Append(@, "Complete flow processing failed")]
            /\ UNCHANGED <<dfmDemo, kcDemo, fin, sent, rpcVars, consVars, lateVars>>

FlowInit ==
    /\ dfmDemo \in BOOLEAN
    /\ kcDemo \in BOOLEAN
    /\ dfmDemo => kcDemo
    /\ fpc = [i \in Flows |-> "idle"]
    /\ fin = [i \in Flows |-> [raw |-> "dict", processed |-> "dict", ai |-> "dict"]]
    /\ sent = [i \in Flows |-> <<>>]
    /\ fret = [i \in Flows |-> FALSE]
    /\ flog = [i \in Flows |-> <<>>]

\* JsonRpcProcessor.__init__: no methods, no middleware.
RpcInit ==
    /\ methods = <<>>
    /\ middleware = <<>>
    /\ rpcOut = [op |-> "none"]

\* A KafkaClient on which consume_messages has not been called.
ConsumeIdle ==
    /\ kcMode = "jsonrpc"
    /\ cpc = "idle"
    /\ clog = <<>>

\* The threads that call process_complete_ticket_flow on one manager: the
\* UI thread (0) and the demo loop threads.
Callers == 0..MaxLoops

\* A payload without ticket_id.
NoTicket == [kind |-> "dict", has |-> FALSE, id |-> "unknown"]

\* A caller that is not inside process_complete_ticket_flow.
NoFlow ==
    [op |-> "none", raw |-> NoTicket, processed |-> NoTicket, ai |-> NoTicket,
     sends |-> <<>>, returned |-> FALSE]

\* No worker is dispatching, send_message and the whole flow have not been
\* called, the dashboard's demo is not running and its UI thread is idle.
LateIdle ==
    /\ disp = <<>>
    /\ kcOut = [op |-> "none"]
    /\ dfmOut = [c \in Callers |-> NoFlow]
    /\ dash = [is_running |-> FALSE, loops |-> <<>>, messages_sent |-> 0,
               ui |-> "idle"]

FlowNext ==
    \E i \in Flows :
        \/ \E raw \in PayloadKinds, processed \in {"dict", "other"}, ai \in {"dict", "other"} :
               FlowCall(i, raw, processed, ai)
        \/ \E cond \in TransportConds : FlowStep1(i, cond)
        \/ \E cond \in TransportConds : FlowStep2(i, cond)
        \/ \E cond \in TransportConds : FlowStep3(i, cond)

\* The orchestrator in any of its modes, next to an unused processor.
InitFlow == FlowInit /\ RpcInit /\ ConsumeIdle /\ LateIdle

SpecFlow == InitFlow /\ [][FlowNext]_vars

(***************************************************************************)
(* JSON-RPC 2.0 envelope values (src/src/core/jsonrpc.py)                  *)
(***************************************************************************)
\* JsonRpcErrorCodes
PARSE_ERROR == -32700
INVALID_REQUEST == -32600
METHOD_NOT_FOUND == -32601
INVALID_PARAMS == -32602
INTERNAL_ERROR == -32603

\* Identifiers.  Python's None, an integer, a string, a generated uuid4.
IdNone == [t |-> "none", v |-> 0]

Uuid(n) == [t |-> "uuid", v |-> n]

\* The identifiers a caller may put on the wire or hand to create_request.
GivenIds == {[t |-> "int", v |-> 7], [t |-> "str", v |-> 1]}

\* Parameters.  t is the Python type of the value: "none", "list", "dict",
\* or a scalar type; pos holds a list's items, named a dict's items.
ParamsNone == [t |-> "none", pos |-> <<>>, named |-> {}]

ParamsList(items) == [t |-> "list", pos |-> items, named |-> {}]

ParamsDict(items) == [t |-> "dict", pos |-> <<>>, named |-> items]

ParamsScalar(type) == [t |-> type, pos |-> <<>>, named |-> {}]

ParamsValues ==
    { ParamsNone,
      ParamsList(<<"x", "y">>),
      ParamsDict({<<"ticket_data", "x">>}),
      ParamsScalar("str") }

\* Method members seen on the wire: registered and unregistered names, the
\* empty string, and JSON values that are not strings.
MethodNames == {"system.health", "ai.generate_response"}

MethodValues == MethodNames \cup {"no.such.method", "", "<array>"}

\* dict membership (`request.method not in self.methods`) hashes the key.
Hashable(m) == m # "<array>"

\* JsonRpcRequest(method=, params=, id=) followed by __post_init__: an id of
\* None is replaced by str(uuid.uuid4()); u is the value uuid4 would draw.
JsonRpcRequest(method, params, id, u) ==
    [none |-> FALSE, jsonrpc |-> "2.0", method |-> method, params |-> params,
     id |-> IF id = IdNone THEN Uuid(u) ELSE id]

\* Python's None where a request object is expected.
NoneRequest ==
    [none |-> TRUE, jsonrpc |-> "2.0", method |-> "", params |-> ParamsNone, id |-> IdNone]

\* getattr(request, 'id', None)
IdOrNone(req) == IF req.none THEN IdNone ELSE req.id

\* to_dict that leaves the id member out.
request_to_dict_NoId(req) ==
    [members |-> {"jsonrpc", "method"}
                   \cup (IF req.params.t # "none" THEN {"params"} ELSE {}),
     jsonrpc |-> req.jsonrpc, method |-> req.method,
     params |-> req.params, id |-> req.id]

\* JsonRpcRequest.to_dict: params and id are left out when None.
request_to_dict(req) ==
    [members |-> {"jsonrpc", "method"}
                   \cup (IF req.params.t # "none" THEN {"params"} ELSE {})
                   \cup (IF req.id # IdNone THEN {"id"} ELSE {}),
     jsonrpc |-> req.jsonrpc, method |-> req.method,
     params |-> req.params, id |-> req.id]

\* Results and errors of a response.  none marks Python's None.
NoResult == [none |-> TRUE, serializable |-> TRUE, by |-> "", pos |-> <<>>, named |-> {}]

NoError == [none |-> TRUE, code |-> 0, message |-> <<>>, data |-> ""]

\* JsonRpcError(code, message, data).to_dict()
JsonRpcError(code, message, data) ==
    [none |-> FALSE, code |-> code, message |-> message, data |-> data]

\* JsonRpcProcessor.create_success_response
create_success_response(result, id) ==
    [jsonrpc |-> "2.0", id |-> id, result |-> result, error |-> NoError]

\* create_error_response without the request_id it is given.
create_error_response_NoId(code, message, data, id) ==
    [jsonrpc |-> "2.0", id |-> IdNone, result |-> NoResult,
     error |-> JsonRpcError(code, message, data)]

\* JsonRpcProcessor.create_error_response
create_error_response(code, message, data, id) ==
    [jsonrpc |-> "2.0", id |-> id, result |-> NoResult,
     error |-> JsonRpcError(code, message, data)]

\* to_dict that always writes the result member.
response_to_dict_BothMembers(resp) ==
    [members |-> {"jsonrpc", "result"}
                   \cup (IF resp.id # IdNone THEN {"id"} ELSE {})
                   \cup (IF ~resp.error.none THEN {"error"} ELSE {}),
     jsonrpc |-> resp.jsonrpc, id |-> resp.id,
     result |-> resp.result, error |-> resp.error]

\* JsonRpcResponse.to_dict: id is left out when None; the error member when
\* error is set, the result member otherwise.
response_to_dict(resp) ==
    [members |-> {"jsonrpc"}
                   \cup (IF resp.id # IdNone THEN {"id"} ELSE {})
                   \cup (IF ~resp.error.none THEN {"error"} ELSE {"result"}),
     jsonrpc |-> resp.jsonrpc, id |-> resp.id,
     result |-> resp.result, error |-> resp.error]

\* JsonRpcResponse.to_json: json.dumps(self.to_dict()) raises TypeError for a
\* result it cannot serialize.
response_to_json(resp) ==
    IF "result" \in response_to_dict(resp).members /\ ~resp.result.serializable
    THEN [kind |-> "raise", exc |-> "TypeError"]
    ELSE [kind |-> "text", obj |-> response_to_dict(resp)]

(***************************************************************************)
(* Wire texts handed to parse_request / handle_json_string.                *)
(*   "garbage"    not valid JSON                                           *)
(*   "deep"       opening brackets nested beyond the interpreter's         *)
(*                recursion limit and never closed: not valid JSON         *)
(*   "deep_closed" the same nesting with every bracket closed: valid JSON  *)
(*   "nonobject"  valid JSON that is not an object                         *)
(*   "object"     a JSON object with the members listed in `has`           *)
(***************************************************************************)
PlainText(k) ==
    [k |-> k, has |-> {}, jsonrpc |-> "", method |-> "", params |-> ParamsNone,
     id |-> IdNone]

ObjectText(has, jsonrpc, method, params, id) ==
    [k |-> "object", has |-> has, jsonrpc |-> jsonrpc, method |-> method,
     params |-> params, id |-> id]

\* JsonRpcRequest.to_json: json.dumps(self.to_dict()), the JSON object with
\* exactly the members of to_dict; a member that was left out has no value
\* on the wire.
request_to_json(req) ==
    LET d == request_to_dict(req) IN
    ObjectText(d.members, d.jsonrpc, d.method,
               IF "params" \in d.members THEN d.params ELSE ParamsNone,
               IF "id" \in d.members THEN d.id ELSE IdNone)

\* Well-versioned request objects: id present or not, params present or not.
RequestTexts ==
    { ObjectText({"jsonrpc", "method"} \cup hp \cup hi, "2.0", m,
                 IF hp = {} THEN ParamsNone ELSE p,
                 IF hi = {} THEN IdNone ELSE i) :
        hp \in {{}, {"params"}}, hi \in {{}, {"id"}},
        m \in MethodValues, p \in ParamsValues \ {ParamsNone}, i \in GivenIds }

\* Objects that are not requests: wrong or missing version, missing method,
\* and "id": null / "params": null next to a valid head.
OtherObjectTexts ==
    { ObjectText({"jsonrpc", "method"}, "1.0", "system.health", ParamsNone, IdNone),
      ObjectText({"method"}, "", "system.health", ParamsNone, IdNone),
      ObjectText({"jsonrpc"}, "2.0", "", ParamsNone, IdNone),
      ObjectText({"jsonrpc", "id"}, "2.0", "", ParamsNone, [t |-> "int", v |-> 7]),
      ObjectText({"jsonrpc", "method", "id", "params"}, "2.0", "system.health",
                 ParamsNone, IdNone) }

Texts ==
    {PlainText("garbage"), PlainText("deep"), PlainText("deep_closed"),
     PlainText("nonobject")}
        \cup RequestTexts \cup OtherObjectTexts

\* json.loads: the decoded value, JSONDecodeError for a text that is not
\* JSON, RecursionError once the nesting exceeds the recursion limit.
json_loads(text) ==
    CASE text.k = "garbage" -> [kind |-> "raise", exc |-> "JSONDecodeError"]
      [] text.k \in {"deep", "deep_closed"} ->
            [kind |-> "raise", exc |-> "RecursionError"]
      [] OTHER -> [kind |-> "value", isDict |-> text.k = "object", data |-> text]

\* data.get(member): the member's value, None when it is missing (a JSON
\* null decodes to None as well).
GetId(data) == IF "id" \in data.has THEN data.id ELSE IdNone

GetParams(data) == IF "params" \in data.has THEN data.params ELSE ParamsNone

\* JsonRpcProcessor.parse_request; u is the value uuid4 would draw.
\* Only json.JSONDecodeError is caught around json.loads.
parse_request(text, u) ==
    LET d == json_loads(text) IN
    CASE d.kind = "raise" /\ d.exc = "JSONDecodeError" ->
            [kind |-> "response",
             resp |-> create_error_response(PARSE_ERROR, <<"Parse error">>,
                                            "JSONDecodeError", IdNone)]
      [] d.kind = "raise" /\ d.exc # "JSONDecodeError" ->
            [kind |-> "raise", exc |-> d.exc]
      [] d.kind = "value" /\ ~d.isDict ->
            [kind |-> "response",
             resp |-> create_error_response(INVALID_REQUEST,
                        <<"Invalid Request - must be JSON object">>, "", IdNone)]
      [] d.kind = "value" /\ d.isDict
           /\ ~("jsonrpc" \in d.data.has /\ d.data.jsonrpc = "2.0") ->
            [kind |-> "response",
             resp |-> create_error_response(INVALID_REQUEST,
                        <<"Invalid Request - missing or invalid jsonrpc version">>,
                        "", IdNone)]
      [] d.kind = "value" /\ d.isDict
           /\ "jsonrpc" \in d.data.has /\ d.data.jsonrpc = "2.0"
           /\ "method" \notin d.data.has ->
            [kind |-> "response",
             resp |-> create_error_response(INVALID_REQUEST,
                        <<"Invalid Request - missing method">>, "", IdNone)]
      [] OTHER ->
            [kind |-> "request",
             req |-> JsonRpcRequest(d.data.method, GetParams(d.data), GetId(d.data), u)]

(***************************************************************************)
(* Handlers and middleware: the callables registered with the processor.   *)
(***************************************************************************)
Range(f) == {f[x] : x \in DOMAIN f}

\* A handler's signature: its required and its defaulted parameter names.
\* system_health() and generate_ai_response(ticket_data, demo_mode=True)
HandlerSigs ==
    { [req |-> <<>>, opt |-> <<>>],
      [req |-> <<"ticket_data">>, opt |-> <<"demo_mode">>] }

\* What a handler's body does once it runs: the environment's choice.
HandlerBehaviours ==
    {"return", "return_None", "return_unserializable", "raise_TypeError",
     "raise_ValueError"}

\* Python's argument binding for method(), method(*params), method(**params).
Binds(h, params) ==
    CASE params.t = "none" -> Len(h.req) = 0
      [] params.t = "list" ->
            /\ Len(h.req) <= Len(params.pos)
            /\ Len(params.pos) <= Len(h.req) + Len(h.opt)
      [] OTHER ->
            LET keys == {kv[1] : kv \in params.named} IN
            /\ Range(h.req) \subseteq keys
            /\ keys \subseteq Range(h.req) \cup Range(h.opt)

\* A handler called as method(params): the params value is one argument.
HandlerResult_OneArgument(name, params, serializable) ==
    [none |-> FALSE, serializable |-> serializable, by |-> name,
     pos |-> IF params.t = "none" THEN <<>> ELSE <<"params">>, named |-> {}]

\* The value a handler returns: which handler, called with what.
HandlerResult(name, params, serializable) ==
    [none |-> FALSE, serializable |-> serializable, by |-> name,
     pos |-> params.pos, named |-> params.named]

\* Lines 197-205: the call of the handler by the shape of params.  exc is the
\* exception that leaves the call ("none": it returned), invoked tells
\* whether the handler's body ran.
call_method(h, name, params, beh) ==
    CASE params.t \notin {"none", "list", "dict"} ->
            [exc |-> "ValueError", msg |-> "Params must be array or object",
             invoked |-> FALSE, fault |-> "shape", result |-> NoResult]
      [] params.t \in {"none", "list", "dict"} /\ ~Binds(h, params) ->
            [exc |-> "TypeError", msg |-> "missing or unexpected argument",
             invoked |-> FALSE, fault |-> "binding", result |-> NoResult]
      [] OTHER ->
            CASE beh = "raise_TypeError" ->
                    [exc |-> "TypeError", msg |-> "TypeError raised in handler",
                     invoked |-> TRUE, fault |-> "handler", result |-> NoResult]
              [] beh = "raise_ValueError" ->
                    [exc |-> "ValueError", msg |-> "ValueError raised in handler",
                     invoked |-> TRUE, fault |-> "handler", result |-> NoResult]
              [] beh = "return_None" ->
                    [exc |-> "none", msg |-> "", invoked |-> TRUE, fault |-> "none",
                     result |-> NoResult]
              [] OTHER ->
                    [exc |-> "none", msg |-> "", invoked |-> TRUE, fault |-> "none",
                     result |-> HandlerResult(name, params, beh = "return")]

\* Lines 207-223: the response for what the call did.  `except TypeError`
\* comes first, `except Exception` takes every other exception.
call_response(c, id) ==
    CASE c.exc = "none" -> create_success_response(c.result, id)
      [] c.exc = "TypeError" ->
            create_error_response(INVALID_PARAMS, <<"Invalid params: ", c.msg>>, "", id)
      [] OTHER ->
            create_error_response(INTERNAL_ERROR,
                                  <<"Method execution error: ", c.msg>>, "", id)

\* Middleware callables.
\*   "set_method"   sets request.method and returns the request
\*   "return_none"  returns None (a middleware without a return statement)
\*   "raise"        raises an Exception
MiddlewareKinds == {"set_method", "return_none", "raise"}

apply_middleware(kind, req) ==
    CASE kind = "raise" ->
            [exc |-> "Exception", msg |-> "rejected by middleware", req |-> req]
      [] kind = "return_none" -> [exc |-> "none", msg |-> "", req |-> NoneRequest]
      [] OTHER ->
            IF req.none
            THEN [exc |-> "AttributeError",
                  msg |-> "'NoneType' object has no attribute 'method'", req |-> req]
            ELSE [exc |-> "none", msg |-> "",
                  req |-> [req EXCEPT !.method = "system.health"]]

\* Lines 225-231: the outer handler of process_request.
outer_error(msg, req) ==
    create_error_response(INTERNAL_ERROR, <<"Internal error: ", msg>>, "", IdOrNone(req))

\* Lines 173-182: the middleware loop from position k on.  A middleware
\* fault ends it with an Internal Error built from request.id; with request
\* bound to None that access faults in turn and the outer handler answers.
RECURSIVE run_middleware(_, _, _)
run_middleware(req, mws, k) ==
    IF k > Len(mws)
    THEN [kind |-> "request", req |-> req, ran |-> Len(mws), msg |-> ""]
    ELSE LET a == apply_middleware(mws[k], req) IN
         IF a.exc = "none"
         THEN run_middleware(a.req, mws, k + 1)
         ELSE [kind |-> "response", ran |-> k, req |-> req, msg |-> a.msg,
               resp |-> IF req.none
                        THEN outer_error("'NoneType' object has no attribute 'id'", req)
                        ELSE create_error_response(INTERNAL_ERROR,
                                 <<"Middleware error: ", a.msg>>, "", req.id)]

\* JsonRpcProcessor.process_request.  reg is self.methods, mws is
\* self.middleware, beh what the handler's body does if it runs.  Besides
\* the response: how many middleware ran, whether the handler's body ran,
\* where the fault (if any) arose and the message of the exception caught
\* around the call.
process_request(req, reg, mws, beh) ==
    LET m == run_middleware(req, mws, 1)
        r == m.req
    IN
    CASE m.kind = "response" ->
            [resp |-> m.resp, ran |-> m.ran, invoked |-> FALSE, fault |-> "middleware",
             msg |-> m.msg]
      [] m.kind = "request" /\ r.none ->
            [resp |-> outer_error("'NoneType' object has no attribute 'method'", r),
             ran |-> m.ran, invoked |-> FALSE, fault |-> "outer", msg |-> ""]
      [] m.kind = "request" /\ ~r.none /\ ~Hashable(r.method) ->
            [resp |-> outer_error("unhashable type", r),
             ran |-> m.ran, invoked |-> FALSE, fault |-> "outer", msg |-> ""]
      [] m.kind = "request" /\ ~r.none /\ Hashable(r.method)
           /\ r.method \notin DOMAIN reg ->
            [resp |-> create_error_response(METHOD_NOT_FOUND,
                         <<"Method not found: ", r.method>>, "", r.id),
             ran |-> m.ran, invoked |-> FALSE, fault |-> "not_found", msg |-> ""]
      [] OTHER ->
            LET c == call_method(reg[r.method], r.method, r.params, beh) IN
            [resp |-> call_response(c, r.id), ran |-> m.ran,
             invoked |-> c.invoked, fault |-> c.fault, msg |-> c.msg]

\* JsonRpcProcessor.handle_json_string: what the caller gets, a text or an
\* exception.
handle_json_string(text, u, reg, mws, beh) ==
    LET parsed == parse_request(text, u) IN
    CASE parsed.kind = "raise" -> [kind |-> "raise", exc |-> parsed.exc]
      [] parsed.kind = "response" -> response_to_json(parsed.resp)
      [] OTHER -> response_to_json(process_request(parsed.req, reg, mws, beh).resp)

(***************************************************************************)
(* The processor's operations as actions.  The caller makes one call at a  *)
(* time: rpcOut holds the call that has just returned until the caller has *)
(* taken its result (RpcReturn); process_request is given the request the  *)
(* preceding parse_request or create_request returned.                     *)
(***************************************************************************)
\* What the caller of register_method(name, h) sees: the call returns None.
\* replaced remembers the handler the name had before the call, if any.
Registered(name, h) ==
    [op |-> "register", name |-> name, handler |-> h,
     replaced |-> IF name \in DOMAIN methods THEN {methods[name]} ELSE {},
     out |-> [kind |-> "none"]]

\* register_method that keeps the handler a name already has.
RegisterMethod_KeepsFirst(name, h) ==
    /\ rpcOut.op = "none"
    /\ methods' = [n \in DOMAIN methods \cup {name} |->
                      IF n \in DOMAIN methods THEN methods[n] ELSE h]
    /\ rpcOut' = Registered(name, h)
    /\ UNCHANGED <<middleware, flowVars, consVars, lateVars>>

\* register_method that starts the registry afresh with the one name.
RegisterMethod_DropsOthers(name, h) ==
    /\ rpcOut.op = "none"
    /\ methods' = [n \in {name} |-> h]
    /\ rpcOut' = Registered(name, h)
    /\ UNCHANGED <<middleware, flowVars, consVars, lateVars>>

\* register_method: self.methods[name] = method
RegisterMethod(name, h) ==
    /\ rpcOut.op = "none"
    /\ methods' = [n \in DOMAIN methods \cup {name} |->
                      IF n = name THEN h ELSE methods[n]]
    /\ rpcOut' = Registered(name, h)
    /\ UNCHANGED <<middleware, flowVars, consVars, lateVars>>

\* add_middleware: self.middleware.append(middleware)
AddMiddleware(kind) ==
    /\ rpcOut.op = "none"
    /\ Len(middleware) < MaxMiddleware
    /\ middleware' = Append(middleware, kind)
    /\ UNCHANGED <<methods, rpcOut, flowVars, consVars, lateVars>>

\* create_request(method, params, request_id)
CreateRequest(method, params, id, u) ==
    /\ rpcOut.op = "none"
    /\ rpcOut' = [op |-> "create", given |-> id,
                  out |-> [kind |-> "request",
                           req |-> JsonRpcRequest(method, params, id, u)]]
    /\ UNCHANGED <<methods, middleware, flowVars, consVars, lateVars>>

\* parse_request(json_string)
ParseRequest(text, u) ==
    /\ rpcOut.op = "none"
    /\ rpcOut' = [op |-> "parse", text |-> text, out |-> parse_request(text, u)]
    /\ UNCHANGED <<methods, middleware, flowVars, consVars, lateVars>>

\* process_request(request) on the request the last parse or create returned
ProcessRequest(beh) ==
    /\ rpcOut.op \in {"parse", "create"}
    /\ rpcOut.out.kind = "request"
    /\ rpcOut' = [op |-> "process", req |-> rpcOut.out.req,
                  out |-> process_request(rpcOut.out.req, methods, middleware, beh)]
    /\ UNCHANGED <<methods, middleware, flowVars, consVars, lateVars>>

\* handle_json_string(json_string)
HandleJsonString(text, u, beh) ==
    /\ rpcOut.op = "none"
    /\ rpcOut' = [op |-> "handle", text |-> text,
                  out |-> handle_json_string(text, u, methods, middleware, beh)]
    /\ UNCHANGED <<methods, middleware, flowVars, consVars, lateVars>>

FlowIdle ==
    /\ dfmDemo = TRUE
    /\ kcDemo = TRUE
    /\ fpc = [i \in Flows |-> "idle"]
    /\ fin = [i \in Flows |-> [raw |-> "dict", processed |-> "dict", ai |-> "dict"]]
    /\ sent = [i \in Flows |-> <<>>]
    /\ fret = [i \in Flows |-> FALSE]
    /\ flog = [i \in Flows |-> <<>>]

\* The caller has taken the result of the last call.
RpcReturn ==
    /\ rpcOut.op # "none"
    /\ rpcOut' = [op |-> "none"]
    /\ UNCHANGED <<methods, middleware, flowVars, consVars, lateVars>>

RpcNext ==
    \/ \E name \in MethodNames, h \in HandlerSigs : RegisterMethod(name, h)
    \/ \E kind \in MiddlewareKinds : AddMiddleware(kind)
    \/ \E m \in MethodValues, p \in ParamsValues, id \in GivenIds \cup {IdNone},
          u \in 1..NUuids : CreateRequest(m, p, id, u)
    \/ \E text \in Texts, u \in 1..NUuids : ParseRequest(text, u)
    \/ \E beh \in HandlerBehaviours : ProcessRequest(beh)
    \/ \E text \in Texts, u \in 1..NUuids, beh \in HandlerBehaviours :
          HandleJsonString(text, u, beh)
    \/ RpcReturn

\* A fresh processor, next to an orchestrator that is never called.
InitRpc == RpcInit /\ FlowIdle /\ ConsumeIdle /\ LateIdle

SpecRpc == InitRpc /\ [][RpcNext]_vars

(***************************************************************************)
(* KafkaClient.consume_messages (src/src/streaming/kafka_client.py)        *)
(*                                                                         *)
(* A message value is a byte string:                                       *)
(*   "avro"       a frame in the Confluent wire format (magic byte, schema *)
(*                id, Avro binary) whose bytes are not UTF-8, as with a    *)
(*                Confluent Cloud schema id                                *)
(*   "avro_utf8"  a frame in the Confluent wire format whose bytes happen  *)
(*                to be UTF-8 (a low schema id, ASCII fields)              *)
(*   "avro_mock"  the frame MockAvroSerializer writes: five low bytes and  *)
(*                JSON text; the bytes are UTF-8                           *)
(*   "bad_utf8"   bytes that are not UTF-8 and not a frame                 *)
(*   "utf8"       UTF-8 text, given by `text`                              *)
(* The text of a frame that decodes as UTF-8 begins with NUL characters    *)
(* and is not JSON.                                                        *)
(* The log of one pass of the loop body is the sequence of the levels of   *)
(* the records the loop writes to its logger at INFO and above.            *)
(***************************************************************************)
\* The codec the client was constructed with: Avro with confluent_kafka's
\* AvroDeserializer, Avro with the repository's MockAvroDeserializer
\* (get_schema_registry falls back to the mock registry), JSON-RPC
\* envelopes, plain JSON.
CodecModes == {"avro", "avro_mock", "jsonrpc", "json"}

AvroBytes == [bytes |-> "avro", text |-> PlainText("garbage")]

AvroUtf8Bytes == [bytes |-> "avro_utf8", text |-> PlainText("garbage")]

MockAvroBytes == [bytes |-> "avro_mock", text |-> PlainText("garbage")]

BadUtf8Bytes == [bytes |-> "bad_utf8", text |-> PlainText("garbage")]

Utf8(text) == [bytes |-> "utf8", text |-> text]

\* The topics the registry loads a schema for, and with it a deserializer.
SchemaTopics == {"support-tickets", "processed-tickets", "ai-responses"}

\* The topics of the polled messages: one with a schema, one without.
ConsumedTopics == {"support-tickets", "customer-feedback"}

\* json.dumps(message) of a ticket: an object without a jsonrpc member.
TicketText == ObjectText({}, "", "", ParamsNone, IdNone)

\* A JSON-RPC envelope on the wire: create_request(method, params,
\* request_id).to_json(), as send_message writes it in JSON-RPC mode
\* (lines 324-333) and as other producers may.
RpcEnvelopeText(params) ==
    request_to_json(JsonRpcRequest("kafka.support_tickets", params,
                                   [t |-> "str", v |-> 1], 1))

\* send_message in JSON-RPC mode: params is the message, a dict.
RpcTicketText == RpcEnvelopeText(ParamsDict({<<"ticket_id", "T001">>}))

\* The message values the broker may hand out; among them envelopes of
\* other producers whose params is a list and whose params is the number 0.
ConsumedValues ==
    {AvroBytes, AvroUtf8Bytes, MockAvroBytes, BadUtf8Bytes}
        \cup {Utf8(t) : t \in {TicketText, RpcTicketText,
                               RpcEnvelopeText(ParamsList(<<"x", "y">>)),
                               RpcEnvelopeText(ParamsScalar("zero")),
                               PlainText("garbage"), PlainText("deep"),
                               PlainText("nonobject")}}

\* The values send_message writes to a topic by the codec at hand for it:
\* the frame of the topic's serializer, or JSON when the serializer is
\* missing or faults; the JSON-RPC envelope; plain JSON.
SentBy(codec) ==
    CASE codec = "avro" -> {AvroBytes, AvroUtf8Bytes, Utf8(TicketText)}
      [] codec = "avro_mock" -> {MockAvroBytes, Utf8(TicketText)}
      [] codec = "jsonrpc" -> {Utf8(RpcTicketText)}
      [] OTHER -> {Utf8(TicketText)}

\* The outcomes of decoding a value: the decoded payload or an exception,
\* each with the records logged.
Decoded(isDict, via, logs) ==
    [kind |-> "data", isDict |-> isDict, via |-> via, exc |-> "", logs |-> logs]

Raised(exc, logs) ==
    [kind |-> "raise", isDict |-> FALSE, via |-> "", exc |-> exc, logs |-> logs]

\* msg.value().decode('utf-8')
DecodesAsUtf8(value) == value.bytes \in {"utf8", "avro_utf8", "avro_mock"}

\* json.loads(msg.value().decode('utf-8'))
json_decode(value) ==
    IF ~DecodesAsUtf8(value)
    THEN Raised("UnicodeDecodeError", <<>>)
    ELSE LET d == json_loads(value.text) IN
         IF d.kind = "raise"
         THEN Raised(d.exc, <<>>)
         ELSE Decoded(d.isDict, "json", <<>>)

\* MockAvroDeserializer.__call__: a value that starts with the mock's magic
\* bytes is read as the JSON text after them (the frame MockAvroSerializer
\* writes holds a mapping; what follows the same five bytes in a
\* Confluent frame is Avro binary, not JSON); any other value goes
\* through json.loads(data.decode('utf-8')).
MockAvroDeserializer(value) ==
    IF value.bytes = "avro_mock"
    THEN Decoded(TRUE, "avro", <<>>)
    ELSE LET d == json_decode(value) IN
         IF d.kind = "data" THEN Decoded(d.isDict, "avro", <<>>) ELSE d

\* deserializer(msg.value(), serialization_context): AvroDeserializer reads
\* a frame in the Confluent wire format and raises SerializationError on
\* any other value, the mock's frame included.
avro_deserialize(mode, value) ==
    CASE mode = "avro_mock" -> MockAvroDeserializer(value)
      [] value.bytes \in {"avro", "avro_utf8"} -> Decoded(TRUE, "avro", <<>>)
      [] OTHER -> Raised("SerializationError", <<>>)

\* Lines 389-399: the deserializer's result is logged with logger.info; its
\* fault is logged with logger.error and logger.warning and the value is
\* decoded as JSON.
avro_decode(mode, value) ==
    LET d == avro_deserialize(mode, value) IN
    IF d.kind = "data"
    THEN Decoded(d.isDict, d.via, <<"info">>)
    ELSE LET j == json_decode(value) IN
         [j EXCEPT !.logs = <<"error", "warning">>]

\* Lines 405-430: the JSON-RPC branch on the decoded text.  An error
\* Response from parse_request is logged as a warning and the message
\* dropped (`continue`); a fault in the branch falls back to json.loads.
\* The data are `params or {}` with the member '_jsonrpc' added: the params
\* when they are a dict, a new dict when they are false (so an envelope
\* whose params is 0, '' or false is delivered as a dict holding only
\* '_jsonrpc').  Item assignment faults (TypeError) on params that are true
\* and no dict, a non-empty list or string or a number, and the fallback
\* then delivers the whole envelope.  PyFalsy is Python's `not params`:
\* None, an empty list or dict, and the scalars 0, '' and false.
\* The id parse_request draws for an envelope without one is no part of
\* the outcome.
jsonrpc_decode(value) ==
    IF ~DecodesAsUtf8(value)
    THEN Raised("UnicodeDecodeError", <<>>)
    ELSE LET parsed == parse_request(value.text, 1)
             PyFalsy(params) ==
                 CASE params.t = "none" -> TRUE
                   [] params.t = "list" -> params.pos = <<>>
                   [] params.t = "dict" -> params.named = {}
                   [] OTHER -> params.t \in {"zero", "empty_str", "false"}
         IN
         CASE parsed.kind = "response" ->
                [kind |-> "continue", isDict |-> FALSE, via |-> "", exc |-> "",
                 logs |-> <<"warning">>]
           [] parsed.kind = "request"
                /\ (PyFalsy(parsed.req.params) \/ parsed.req.params.t = "dict") ->
                Decoded(TRUE, "jsonrpc", <<>>)
           [] OTHER -> json_decode(value)

\* Lines 385-410: the branch of the decoding a message takes.  With the
\* schema registry in use it is chosen for each message by its topic
\* (line 388): the topic's deserializer, or JSON when get_deserializer
\* gives None.
message_codec(mode, topic) ==
    CASE mode \in {"avro", "avro_mock"} /\ topic \in SchemaTopics -> mode
      [] mode \in {"avro", "avro_mock"} -> "no_deserializer"
      [] OTHER -> mode

\* Lines 385-434: the decoding of one message value.  Without a
\* deserializer for the topic (lines 400-404): logger.warning, then JSON.
decode_message(mode, topic, value) ==
    LET codec == message_codec(mode, topic) IN
    CASE codec \in {"avro", "avro_mock"} -> avro_decode(codec, value)
      [] codec = "no_deserializer" ->
            [json_decode(value) EXCEPT !.logs = <<"warning">>]
      [] codec = "jsonrpc" -> jsonrpc_decode(value)
      [] OTHER -> json_decode(value)

\* One poll that returned a message, stopping the loop on a decode fault.
consume_one_StopsOnFault(mode, topic, value, cb) ==
    LET d == decode_message(mode, topic, value) IN
    CASE d.kind = "continue" ->
            [outcome |-> "skipped", log |-> d.logs, delivered |-> FALSE,
             metadata |-> FALSE, next |-> "poll"]
      [] d.kind = "raise" ->
            [outcome |-> "skipped", log |-> d.logs \o <<"error">>,
             delivered |-> FALSE, metadata |-> FALSE, next |-> "closed"]
      [] OTHER ->
            [outcome |-> IF cb = "return" THEN "delivered" ELSE "callback_raised",
             log |-> IF cb = "return" THEN d.logs ELSE d.logs \o <<"error">>,
             delivered |-> TRUE, metadata |-> d.isDict, next |-> "poll"]

\* Lines 381-454: the loop body for a polled message: decode, attach
\* _kafka_metadata to a dict, call the callback, which returns or raises
\* (cb); every Exception is logged with logger.error and the loop goes on
\* to the next poll.
consume_one(mode, topic, value, cb) ==
    LET d == decode_message(mode, topic, value) IN
    CASE d.kind = "continue" ->
            [outcome |-> "skipped", log |-> d.logs, delivered |-> FALSE,
             metadata |-> FALSE, next |-> "poll"]
      [] d.kind = "raise" ->
            [outcome |-> "skipped", log |-> d.logs \o <<"error">>,
             delivered |-> FALSE, metadata |-> FALSE, next |-> "poll"]
      [] OTHER ->
            [outcome |-> IF cb = "return" THEN "delivered" ELSE "callback_raised",
             log |-> IF cb = "return" THEN d.logs ELSE d.logs \o <<"error">>,
             delivered |-> TRUE, metadata |-> d.isDict, next |-> "poll"]

\* What a KeyboardInterrupt makes of a pass of the loop body, by the place
\* where it arrives.  It is not an Exception: outside the error handler's
\* inner try it leaves the loop through `except KeyboardInterrupt` (line
\* 456), logged with logger.info after the records written so far, and the
\* consumer is closed.
\*   "decode"        lines 382-443, before the callback is called: in
\*                   msg.topic(), in a msg.value() call, in the deserializer
\*                   or the parser, between the records of the branch, in
\*                   msg.partition(): any prefix of the records of the
\*                   decoding has been written, nothing was delivered
\*   "callback"      line 445, in the callback: it has the message
\*   "handler"       lines 448-449, after logger.error, in the handler's
\*                   msg.value() call, which is outside the inner try
\*   "debug_decode"  lines 450-454: the bare `except:` takes it and the
\*                   loop goes on as if it had not arrived
interrupted_pass(d, r, at) ==
    LET faulted == r.log # <<>> /\ Last(r.log) = "error"
        stopped(log, delivered, metadata) ==
            [outcome |-> "interrupted", log |-> log \o <<"info">>,
             delivered |-> delivered, metadata |-> metadata, next |-> "closed"]
    IN
    CASE at = "decode" ->
            {stopped(SubSeq(d.logs, 1, k), FALSE, FALSE) : k \in 0..Len(d.logs)}
      [] at = "callback" /\ d.kind = "data" -> {stopped(d.logs, TRUE, d.isDict)}
      [] at = "handler" /\ faulted -> {stopped(r.log, r.delivered, r.metadata)}
      [] at = "debug_decode" /\ faulted -> {r}
      [] OTHER -> {}

\* A poll event without a message value.
PollRecord(ev, outcome, log, next) ==
    [ev |-> ev, codec |-> "", value |-> BadUtf8Bytes, outcome |-> outcome,
     log |-> log, delivered |-> FALSE, metadata |-> FALSE, next |-> next]

\* consume_messages(topics, callback) up to its first poll: demo mode
\* returns at once; a fault of subscribe is logged and the consumer closed.
ConsumeCall(subscribed) ==
    /\ cpc = "idle"
    /\ cpc' = CASE kcDemo -> "returned"
                [] ~kcDemo /\ ~subscribed -> "closed"
                [] OTHER -> "poll"
    /\ UNCHANGED <<kcMode, clog, flowVars, rpcVars, lateVars>>

\* poll(timeout=1.0) returned None, or a message whose error is
\* _PARTITION_EOF: `continue`.
PollNothing(ev) ==
    /\ cpc = "poll"
    /\ Len(clog) < MaxPolls
    /\ clog' = Append(clog, PollRecord(ev, "none", <<>>, "poll"))
    /\ UNCHANGED <<kcMode, cpc, flowVars, rpcVars, lateVars>>

\* poll returned a message with another error (logged, `break`), or poll or
\* msg.error() raised, KeyboardInterrupt included: the consumer is closed.
PollStops(ev) ==
    /\ cpc = "poll"
    /\ Len(clog) < MaxPolls
    /\ clog' = Append(clog, PollRecord(ev, "stopped",
                                       IF ev = "KeyboardInterrupt"
                                       THEN <<"info">> ELSE <<"error">>,
                                       "closed"))
    /\ cpc' = "closed"
    /\ UNCHANGED <<kcMode, flowVars, rpcVars, lateVars>>

\* poll returned a message of a subscribed topic: one pass of the loop body.
PollMessage(topic, value, cb) ==
    /\ cpc = "poll"
    /\ Len(clog) < MaxPolls
    /\ LET r == consume_one(kcMode, topic, value, cb) IN
       /\ clog' = Append(clog, [ev |-> "message",
                                codec |-> message_codec(kcMode, topic),
                                value |-> value,
                                outcome |-> r.outcome, log |-> r.log,
                                delivered |-> r.delivered,
                                metadata |-> r.metadata, next |-> r.next])
       /\ cpc' = r.next
    /\ UNCHANGED <<kcMode, flowVars, rpcVars, lateVars>>

\* KeyboardInterrupt arrives while a polled message is handled.
PollInterrupted(topic, value, cb, at) ==
    /\ cpc = "poll"
    /\ Len(clog) < MaxPolls
    /\ \E r \in interrupted_pass(decode_message(kcMode, topic, value),
                                 consume_one(kcMode, topic, value, cb), at) :
          /\ clog' = Append(clog, [ev |-> "message_interrupted",
                                   codec |-> message_codec(kcMode, topic),
                                   value |-> value,
                                   outcome |-> r.outcome, log |-> r.log,
                                   delivered |-> r.delivered,
                                   metadata |-> r.metadata, next |-> r.next])
          /\ cpc' = r.next
    /\ UNCHANGED <<kcMode, flowVars, rpcVars, lateVars>>

\* KafkaClient.__init__: the codec settings are fixed at construction.  A
\* client constructed live that falls back to demo mode in
\* _setup_kafka_config keeps its codec settings, the Avro ones included.
ConsumeInit ==
    /\ kcMode \in CodecModes
    /\ cpc = "idle"
    /\ clog = <<>>

ConsumeNext ==
    \/ \E subscribed \in BOOLEAN : ConsumeCall(subscribed)
    \/ \E ev \in {"timeout", "partition_eof"} : PollNothing(ev)
    \/ \E ev \in {"consumer_error", "poll_exception", "KeyboardInterrupt"} :
          PollStops(ev)
    \/ \E topic \in ConsumedTopics, value \in ConsumedValues,
          cb \in {"return", "raise"} :
          PollMessage(topic, value, cb)
    \/ \E topic \in ConsumedTopics, value \in ConsumedValues,
          cb \in {"return", "raise"},
          at \in {"decode", "callback", "handler", "debug_decode"} :
          PollInterrupted(topic, value, cb, at)

\* A KafkaClient in any of its modes, next to an unused processor and an
\* orchestrator that is never called.
InitConsume == FlowInit /\ RpcInit /\ ConsumeInit /\ LateIdle

SpecConsume == InitConsume /\ [][ConsumeNext]_vars

(***************************************************************************)
(* A KafkaClient in demo mode: the ticket flow and consume_messages on it. *)
(***************************************************************************)
\* KafkaClient(demo_mode=True), or a client that fell back to demo mode,
\* under a DataFlowManager in either mode.
InitDemo == FlowInit /\ RpcInit /\ ConsumeInit /\ LateIdle /\ kcDemo = TRUE

DemoNext ==
    \/ FlowNext
    \/ \E subscribed \in BOOLEAN : ConsumeCall(subscribed)

SpecDemo == InitDemo /\ [][DemoNext]_vars

(***************************************************************************)
(* process_request step by step on concurrent workers: the places where a  *)
(* dispatch reads the processor's shared state (self.middleware,           *)
(* self.methods) are separate steps.                                       *)
(***************************************************************************)
Workers == 1..NWorkers

\* A worker that is not in process_request.
IdleWorker ==
    [pc |-> "idle", req |-> NoneRequest, cur |-> NoneRequest, k |-> 0, h |-> {},
     beh |-> "return", out |-> {}, fault |-> "none", registered |-> FALSE]

\* The worker's call has returned resp.
Finished(w, resp, fault) ==
    [w EXCEPT !.pc = "done", !.out = {resp}, !.fault = fault]

\* process_request(request) is entered on worker d with the request
\* create_request(method, params, d): the worker's number is the id.
\* registered notes whether the registry held the method at that moment.
DispatchCall(d, method, params) ==
    /\ disp[d].pc = "idle"
    /\ LET req == JsonRpcRequest(method, params, [t |-> "int", v |-> d], 1) IN
       disp' = [disp EXCEPT ![d] =
                   [IdleWorker EXCEPT !.pc = "middleware", !.req = req, !.cur = req,
                                      !.registered = req.method \in DOMAIN methods]]
    /\ UNCHANGED <<flowVars, rpcVars, consVars, kcOut, dfmOut, dash>>

\* Lines 173-182: the next middleware of self.middleware is applied to the
\* worker's request.
DispatchMiddleware(d) ==
    /\ disp[d].pc = "middleware"
    /\ disp[d].k < Len(middleware)
    /\ LET w == disp[d]
           a == apply_middleware(middleware[w.k + 1], w.cur)
       IN
       disp' = [disp EXCEPT ![d] =
                   IF a.exc = "none"
                   THEN [w EXCEPT !.cur = a.req, !.k = w.k + 1]
                   ELSE Finished([w EXCEPT !.k = w.k + 1],
                                 IF w.cur.none
                                 THEN outer_error("'NoneType' object has no attribute 'id'",
                                                  w.cur)
                                 ELSE create_error_response(INTERNAL_ERROR,
                                          <<"Middleware error: ", a.msg>>, "", w.cur.id),
                                 "middleware")]
    /\ UNCHANGED <<flowVars, rpcVars, consVars, kcOut, dfmOut, dash>>

\* Lines 185-191: `if request.method not in self.methods`.
DispatchCheck(d) ==
    /\ disp[d].pc = "middleware"
    /\ disp[d].k = Len(middleware)
    /\ LET w == disp[d]
           r == w.cur
       IN
       disp' = [disp EXCEPT ![d] =
                   CASE r.none ->
                           Finished(w, outer_error(
                               "'NoneType' object has no attribute 'method'", r), "outer")
                     [] ~r.none /\ ~Hashable(r.method) ->
                           Finished(w, outer_error("unhashable type", r), "outer")
                     [] ~r.none /\ Hashable(r.method) /\ r.method \notin DOMAIN methods ->
                           Finished(w, create_error_response(METHOD_NOT_FOUND,
                                           <<"Method not found: ", r.method>>, "", r.id),
                                    "not_found")
                     [] OTHER -> [w EXCEPT !.pc = "lookup"]]
    /\ UNCHANGED <<flowVars, rpcVars, consVars, kcOut, dfmOut, dash>>

\* Line 194: `method = self.methods[request.method]`; a missing key is a
\* KeyError for the outer handler.
DispatchLookup(d) ==
    /\ disp[d].pc = "lookup"
    /\ LET w == disp[d] IN
       disp' = [disp EXCEPT ![d] =
                   IF w.cur.method \in DOMAIN methods
                   THEN [w EXCEPT !.pc = "call", !.h = {methods[w.cur.method]}]
                   ELSE Finished(w, outer_error("KeyError", w.cur), "outer")]
    /\ UNCHANGED <<flowVars, rpcVars, consVars, kcOut, dfmOut, dash>>

\* Lines 196-223: the call of the handler and the response for it.
DispatchInvoke(d, beh) ==
    /\ disp[d].pc = "call"
    /\ LET w == disp[d]
           h == CHOOSE x \in w.h : TRUE
           c == call_method(h, w.cur.method, w.cur.params, beh)
       IN
       disp' = [disp EXCEPT ![d] =
                   Finished([w EXCEPT !.beh = beh], call_response(c, w.cur.id), c.fault)]
    /\ UNCHANGED <<flowVars, rpcVars, consVars, kcOut, dfmOut, dash>>

\* The middleware chains and registries a set-up processor may have.
DispatchChains ==
    { <<>>, <<"set_method">>, <<"set_method", "raise">>, <<"return_none", "set_method">> }

DispatchRegistries ==
    { [n \in {"system.health"} |-> [req |-> <<>>, opt |-> <<>>]],
      [n \in MethodNames |-> [req |-> <<"ticket_data">>, opt |-> <<"demo_mode">>]] }

\* Registration and middleware setup are complete; no worker has started.
InitDispatch ==
    /\ FlowIdle /\ ConsumeIdle
    /\ methods \in DispatchRegistries
    /\ middleware \in DispatchChains
    /\ rpcOut = [op |-> "none"]
    /\ disp = [d \in Workers |-> IdleWorker]
    /\ kcOut = [op |-> "none"]
    /\ dfmOut = [op |-> "none"]
    /\ dash = [is_running |-> FALSE, loops |-> <<>>, messages_sent |-> 0]

DispatchNext ==
    \E d \in Workers :
        \/ \E m \in {"system.health", "no.such.method"},
              p \in {ParamsNone, ParamsList(<<"x", "y">>)} : DispatchCall(d, m, p)
        \/ DispatchMiddleware(d)
        \/ DispatchCheck(d)
        \/ DispatchLookup(d)
        \/ \E beh \in {"return", "raise_ValueError"} : DispatchInvoke(d, beh)

SpecDispatch == InitDispatch /\ [][DispatchNext]_vars

(***************************************************************************)
(* Dispatches on a processor whose registry is still being filled:         *)
(* register_method calls interleave with the workers' steps.               *)
(***************************************************************************)
\* A fresh processor, with or without a middleware that rewrites the method.
InitRegistry ==
    /\ FlowIdle /\ ConsumeIdle
    /\ methods = <<>>
    /\ middleware \in {<<>>, <<"set_method">>}
    /\ rpcOut = [op |-> "none"]
    /\ disp = [d \in Workers |-> IdleWorker]
    /\ kcOut = [op |-> "none"]
    /\ dfmOut = [op |-> "none"]
    /\ dash = [is_running |-> FALSE, loops |-> <<>>, messages_sent |-> 0]

RegistryNext ==
    \/ \E name \in MethodNames, h \in HandlerSigs : RegisterMethod(name, h)
    \/ RpcReturn
    \/ \E d \in Workers :
          \/ DispatchCall(d, "system.health", ParamsNone)
          \/ DispatchMiddleware(d)
          \/ DispatchCheck(d)
          \/ DispatchLookup(d)
          \/ DispatchInvoke(d, "return")

SpecRegistry == InitRegistry /\ [][RegistryNext]_vars

(***************************************************************************)
(* TicketProcessingRpcService.check_escalation (src/src/core/jsonrpc.py).  *)
(* Polarity and escalation_score are counted in hundredths: -30 stands for *)
(* the source's -0.3, 50 for 0.5.                                          *)
(***************************************************************************)
TicketKeys == {"sentiment", "polarity", "urgency_keywords"}

Polarities == {-100, -50, -31, -30, -29, -1, 0, 40, 100}

\* A list of keywords, or None in the list's place.
PyList(items) == [none |-> FALSE, items |-> items]

UrgencyValues ==
    {PyList(<<>>), PyList(<<"urgent">>), PyList(<<"urgent", "asap">>),
     [none |-> TRUE, items |-> <<>>]}

\* ticket_data.get(key, default)
dict_get(ticket_data, key, default) ==
    IF key \in ticket_data.has THEN ticket_data[key] ELSE default

Abs(x) == IF x < 0 THEN -x ELSE x

\* `(sentiment == "negative" and polarity < -0.3) or len(urgency_keywords) > 0`
needs_escalation_RequiresBoth(sentiment, polarity, urgency_keywords) ==
    (sentiment = "negative" /\ polarity < -30) /\ Len(urgency_keywords.items) > 0

needs_escalation(sentiment, polarity, urgency_keywords) ==
    (sentiment = "negative" /\ polarity < -30) \/ Len(urgency_keywords.items) > 0

\* `abs(polarity) if polarity < 0 else 0.0`
escalation_score_Signed(polarity) ==
    IF polarity < 0 THEN polarity ELSE 0

escalation_score(polarity) ==
    IF polarity < 0 THEN Abs(polarity) ELSE 0

\* len(None) faults; the fault is re-raised as "Escalation check failed".
check_escalation(ticket_data) ==
    LET sentiment == dict_get(ticket_data, "sentiment", "neutral")
        polarity == dict_get(ticket_data, "polarity", 0)
        urgency_keywords == dict_get(ticket_data, "urgency_keywords", PyList(<<>>))
    IN
    IF urgency_keywords.none
    THEN [raised |-> TRUE,
          message |-> "Escalation check failed: object of type 'NoneType' has no len()"]
    ELSE [raised |-> FALSE,
          needs_escalation |-> needs_escalation(sentiment, polarity, urgency_keywords),
          escalation_score |-> escalation_score(polarity),
          reasons |-> [negative_sentiment |-> sentiment = "negative" /\ polarity < -30,
                       urgency_keywords |-> Len(urgency_keywords.items) > 0,
                       urgency_keywords_found |-> urgency_keywords.items],
          service |-> "escalation_checker"]

\* The ticket_data mappings: any of the three keys may be missing (a missing
\* key's field holds the default and is not read).
TicketData(has, s, p, u) ==
    [has |-> has,
     sentiment |-> IF "sentiment" \in has THEN s ELSE "neutral",
     polarity |-> IF "polarity" \in has THEN p ELSE 0,
     urgency_keywords |-> IF "urgency_keywords" \in has THEN u ELSE PyList(<<>>)]

CheckEscalation(ticket_data) ==
    /\ rpcOut.op = "none"
    /\ rpcOut' = [op |-> "escalation", ticket_data |-> ticket_data,
                  out |-> check_escalation(ticket_data)]
    /\ UNCHANGED <<methods, middleware, flowVars, consVars, lateVars>>

EscalationNext ==
    \/ \E has \in SUBSET TicketKeys, s \in {"negative", "positive", "neutral"},
          p \in Polarities, u \in UrgencyValues :
          CheckEscalation(TicketData(has, s, p, u))
    \/ RpcReturn

SpecEscalation == InitRpc /\ [][EscalationNext]_vars

(***************************************************************************)
(* The encoding KafkaClient.send_message gives a payload in live mode      *)
(* (src/src/streaming/kafka_client.py, lines 297-351).  Topic names and    *)
(* method names are sequences of characters.                               *)
(***************************************************************************)
\* An orchestrator and a client that are live and idle.
FlowLiveIdle ==
    /\ dfmDemo = FALSE
    /\ kcDemo = FALSE
    /\ fpc = [i \in Flows |-> "idle"]
    /\ fin = [i \in Flows |-> [raw |-> "dict", processed |-> "dict", ai |-> "dict"]]
    /\ sent = [i \in Flows |-> <<>>]
    /\ fret = [i \in Flows |-> FALSE]
    /\ flog = [i \in Flows |-> <<>>]

Topics ==
    { <<"a", "i", "-", "r", "e", "s", "p", "o", "n", "s", "e", "s">>,
      <<"t", "i", "c", "k", "e", "t", "s">>,
      <<"a", "-", "b", "-", "c">> }

\* The method hint: None (the empty sequence stands for a falsy hint) or a name.
MethodHints == {<<>>, <<"t", "i", "c", "k", "e", "t", ".", "n", "e", "w">>}

\* topic.replace('-', '_')
replace_hyphens(topic) ==
    [i \in 1..Len(topic) |-> IF topic[i] = "-" THEN "_" ELSE topic[i]]

\* f"kafka.{topic}" without the replacement.
default_method_KeepsHyphens(topic) ==
    <<"k", "a", "f", "k", "a", ".">> \o topic

\* f"kafka.{topic.replace('-', '_')}"
default_method(topic) ==
    <<"k", "a", "f", "k", "a", ".">> \o replace_hyphens(topic)

\* The client's codec settings: schema registry in use, what get_serializer
\* gives for the topic ("ok": an AvroSerializer that writes the frame,
\* "mock": the MockAvroSerializer, which faults on what json.dumps cannot
\* write, "faults": a serializer that raises when called, "none"), JSON-RPC
\* in use.
SendConfigs ==
    [sr : BOOLEAN, serializer : {"ok", "mock", "faults", "none"}, rpc : BOOLEAN]

\* The payload: a mapping with or without ticket_id, with or without a
\* timestamp, whose values json.dumps can or cannot write.
SendMessages ==
    [ticket_id : BOOLEAN, timestamp : BOOLEAN, serializable : BOOLEAN]

\* message.get('ticket_id', key): key is None or a string.
request_id_of(message, key) ==
    CASE message.ticket_id -> [t |-> "str", v |-> 1]
      [] ~message.ticket_id /\ key -> [t |-> "str", v |-> 2]
      [] OTHER -> IdNone

\* The items of the payload as RPC params.
message_params(message) ==
    ParamsDict({<<"message", "x">>}
                 \cup (IF message.ticket_id THEN {<<"ticket_id", "T001">>} ELSE {})
                 \cup (IF message.timestamp THEN {<<"timestamp", "now">>} ELSE {}))

\* json.dumps(message)
json_dumps(message) ==
    IF message.serializable
    THEN [raised |-> FALSE, encoding |-> "json", value |-> Utf8(TicketText), message |-> message]
    ELSE [raised |-> TRUE, encoding |-> "none", value |-> BadUtf8Bytes, message |-> message]

\* Lines 297-337: the serialized value.  `message` in the result is the
\* payload as the call leaves it (the Avro branch adds a timestamp); frame
\* is what the topic's AvroSerializer writes for the payload (line 312): the
\* Confluent wire format, whose bytes are UTF-8 for some schema ids and
\* payloads (AvroUtf8Bytes) and are not for others (AvroBytes).
serialize_value(cfg, topic, message, key, method, u, frame) ==
    CASE cfg.sr /\ cfg.serializer = "ok" ->
            [raised |-> FALSE, encoding |-> "avro", value |-> frame,
             message |-> [message EXCEPT !.timestamp = TRUE]]
      [] cfg.sr /\ cfg.serializer = "mock" /\ message.serializable ->
            [raised |-> FALSE, encoding |-> "avro", value |-> MockAvroBytes,
             message |-> [message EXCEPT !.timestamp = TRUE]]
      [] cfg.sr /\ cfg.serializer = "mock" ->
            json_dumps([message EXCEPT !.timestamp = TRUE])
      [] cfg.sr /\ cfg.serializer = "faults" ->
            json_dumps([message EXCEPT !.timestamp = TRUE])
      [] cfg.sr /\ cfg.serializer = "none" -> json_dumps(message)
      [] ~cfg.sr /\ cfg.rpc ->
            IF message.serializable
            THEN [raised |-> FALSE, encoding |-> "jsonrpc",
                  value |-> Utf8(request_to_json(JsonRpcRequest(
                                IF method # <<>> THEN method ELSE default_method(topic),
                                message_params(message), request_id_of(message, key), u))),
                  message |-> message]
            ELSE [raised |-> TRUE, encoding |-> "none", value |-> BadUtf8Bytes,
                  message |-> message]
      [] OTHER -> json_dumps(message)

\* send_message(topic, message, key, method) on a live client: the value is
\* serialized and, unless that raised, produced and flushed.
SendMessage(cfg, topic, message, key, method, u, frame, cond) ==
    /\ kcOut.op = "none"
    /\ LET s == serialize_value(cfg, topic, message, key, method, u, frame)
           r == send_message(kcDemo, IF s.raised THEN "encode_fault" ELSE cond)
       IN
       kcOut' = [op |-> "send", cfg |-> cfg, topic |-> topic, message |-> message,
                 key |-> key, method |-> method, cond |-> cond,
                 encoding |-> s.encoding, value |-> s.value, left |-> s.message,
                 raised |-> r.raised, outcome |-> r.outcome]
    /\ UNCHANGED <<flowVars, rpcVars, consVars, disp, dfmOut, dash>>

\* The caller goes on after send_message returned.
SendReturn ==
    /\ kcOut.op = "send"
    /\ kcOut' = [op |-> "none"]
    /\ UNCHANGED <<flowVars, rpcVars, consVars, disp, dfmOut, dash>>

InitSend == FlowLiveIdle /\ RpcInit /\ ConsumeIdle /\ LateIdle

SendNext ==
    \/ \E cfg \in SendConfigs, topic \in Topics, message \in SendMessages,
          key \in BOOLEAN, method \in MethodHints, u \in 1..NUuids,
          frame \in {AvroBytes, AvroUtf8Bytes}, cond \in {"ok", "produce_fault"} :
          SendMessage(cfg, topic, message, key, method, u, frame, cond)
    \/ SendReturn

SpecSend == InitSend /\ [][SendNext]_vars

(***************************************************************************)
(* process_complete_ticket_flow step by step, with the key and the         *)
(* ticket_id of the messages each call hands to kafka_client.send_message  *)
(* (src/src/streaming/data_flow_manager.py).  A call is at its first       *)
(* statements ("step1" once raw_ticket.get has answered), before the       *)
(* processed send ("step2"), before the AI-response send ("step3") or has  *)
(* returned ("done"); calls of other threads on the same manager run in    *)
(* between, each stage send waiting in producer.flush().                   *)
(***************************************************************************)
\* The raw tickets, processed tickets and AI responses the calls are given:
\* a payload is its protocol kind, whether it has a ticket_id member and the
\* member's value.
RawTickets ==
    { [kind |-> "dict", has |-> TRUE, id |-> "T001"], NoTicket,
      [kind |-> "getonly", has |-> TRUE, id |-> "T001"],
      [kind |-> "other", has |-> FALSE, id |-> "unknown"] }

ProcessedTickets ==
    { [kind |-> "dict", has |-> TRUE, id |-> "T001"],
      [kind |-> "dict", has |-> TRUE, id |-> "T999"], NoTicket,
      [kind |-> "other", has |-> TRUE, id |-> "T001"] }

AiResponses ==
    { [kind |-> "dict", has |-> TRUE, id |-> "T999"], NoTicket,
      [kind |-> "other", has |-> TRUE, id |-> "T999"] }

\* payload.get('ticket_id', 'unknown')
get_ticket_id(payload) == IF payload.has THEN payload.id ELSE "unknown"

\* Lines 131-141: {**ai_response, 'ticket_id': ticket_id, ...}
ai_response_with_ticket_id(raw_ticket, ai_response) ==
    [ai_response EXCEPT !.has = TRUE, !.id = get_ticket_id(raw_ticket)]

\* The send_message call of a stage's send function: the enriched payload
\* keeps the payload's ticket_id member, the key is the payload's
\* ticket_id or 'unknown'.
stage_message(stage, payload) ==
    [stage |-> stage, key |-> get_ticket_id(payload),
     has |-> payload.has, ticket_id |-> payload.id]

\* Lines 115-118: the call has begun; raw_ticket.get raises on a payload
\* without get, which `except Exception` turns into False.
flow_begun(raw_ticket, processed_ticket, ai_response) ==
    [op |-> IF HasGet(raw_ticket.kind) THEN "step1" ELSE "done",
     raw |-> raw_ticket, processed |-> processed_ticket, ai |-> ai_response,
     sends |-> <<>>, returned |-> FALSE]

\* One stage of a call: the stage's send function enriches the payload
\* ({**payload, ...}, which faults unless it is a mapping, and the stage
\* returns False) and, on a live orchestrator, calls send_message; a stage
\* that returned False ends the call with False, the third stage that
\* returned True ends it with True.
flow_stage(call, stage, payload, live) ==
    IF ~IsMapping(payload.kind)
    THEN [call EXCEPT !.op = "done", !.returned = FALSE]
    ELSE [call EXCEPT !.op = AfterStage(stage),
                      !.returned = stage = 3,
                      !.sends = IF live
                                THEN Append(@, stage_message(stage, payload))
                                ELSE @]

\* process_complete_ticket_flow(raw_ticket, processed_ticket, ai_response)
\* called by caller c.
TicketFlowCall(c, raw_ticket, processed_ticket, ai_response) ==
    /\ dfmOut[c].op = "none"
    /\ dfmOut' = [dfmOut EXCEPT ![c] = flow_begun(raw_ticket, processed_ticket, ai_response)]
    /\ UNCHANGED <<flowVars, rpcVars, consVars, disp, kcOut, dash>>

\* Step 1 of caller c's call: send_raw_ticket(raw_ticket).
TicketFlowStep1(c) ==
    /\ dfmOut[c].op = "step1"
    /\ dfmOut' = [dfmOut EXCEPT ![c] = flow_stage(@, 1, @.raw, ~dfmDemo)]
    /\ UNCHANGED <<flowVars, rpcVars, consVars, disp, kcOut, dash>>

\* Step 2: send_processed_ticket(processed_ticket).
TicketFlowStep2(c) ==
    /\ dfmOut[c].op = "step2"
    /\ dfmOut' = [dfmOut EXCEPT ![c] = flow_stage(@, 2, @.processed, ~dfmDemo)]
    /\ UNCHANGED <<flowVars, rpcVars, consVars, disp, kcOut, dash>>

\* Step 3: the AI response is given the raw ticket's ticket_id (a fault
\* unless it is a mapping) and sent with send_ai_response.
TicketFlowStep3(c) ==
    /\ dfmOut[c].op = "step3"
    /\ dfmOut' = [dfmOut EXCEPT ![c] =
                     flow_stage(@, 3,
                                IF IsMapping(@.ai.kind)
                                THEN ai_response_with_ticket_id(@.raw, @.ai)
                                ELSE @.ai,
                                ~dfmDemo)]
    /\ UNCHANGED <<flowVars, rpcVars, consVars, disp, kcOut, dash>>

\* Caller c goes on after its call returned.
TicketFlowReturn(c) ==
    /\ dfmOut[c].op = "done"
    /\ dfmOut' = [dfmOut EXCEPT ![c] = NoFlow]
    /\ UNCHANGED <<flowVars, rpcVars, consVars, disp, kcOut, dash>>

InitTicket == FlowInit /\ RpcInit /\ ConsumeIdle /\ LateIdle

\* The calls of two callers are followed: the UI thread's and one demo loop
\* thread's.
TicketNext ==
    \/ \E c \in 0..1, raw \in RawTickets, processed \in ProcessedTickets,
          ai \in AiResponses : TicketFlowCall(c, raw, processed, ai)
    \/ \E c \in 0..1 : TicketFlowStep1(c)
    \/ \E c \in 0..1 : TicketFlowStep2(c)
    \/ \E c \in 0..1 : TicketFlowStep3(c)
    \/ \E c \in 0..1 : TicketFlowReturn(c)

SpecTicket == InitTicket /\ [][TicketNext]_vars

(***************************************************************************)
(* SentimentDashboard (src/src/ui/dashboard.py): start_demo, stop_demo,    *)
(* the threads running _demo_loop and analyze_manual_message on the UI     *)
(* thread.  A loop thread is at the `while self.is_running` test           *)
(* ("check"), in the loop body before its process_complete_ticket_flow     *)
(* call ("body"), inside that call ("flow", the call's position is         *)
(* dfmOut[t]), in time.sleep(3) ("sleep"), has returned ("exited") or has  *)
(* ended in an exception ("died").  The UI thread is caller 0.             *)
(***************************************************************************)
LoopThreads == 1..Len(dash.loops)

\* get_next_message(): a ticket of the generator, and process_ticket's
\* result, which copies its ticket_id; the AI result has no ticket_id.
DemoTicket == [kind |-> "dict", has |-> TRUE, id |-> "T001"]

\* analyze_manual_message: the ticket built from the message, and
\* process_ticket's result.
ManualTicket == [kind |-> "dict", has |-> TRUE, id |-> "MANUAL_1"]

\* start_demo: is_running = True, then a new daemon thread runs _demo_loop.
StartDemo ==
    /\ Len(dash.loops) < MaxLoops
    /\ dash' = [dash EXCEPT !.is_running = TRUE, !.loops = Append(@, "check")]
    /\ UNCHANGED <<flowVars, rpcVars, consVars, disp, kcOut, dfmOut>>

\* stop_demo: is_running = False; no thread is joined.
StopDemo ==
    /\ dash' = [dash EXCEPT !.is_running = FALSE]
    /\ UNCHANGED <<flowVars, rpcVars, consVars, disp, kcOut, dfmOut>>

\* `while self.is_running:` read by thread t.
LoopCheck(t) ==
    /\ t \in LoopThreads
    /\ dash.loops[t] = "check"
    /\ dash' = [dash EXCEPT !.loops[t] = IF dash.is_running THEN "body" ELSE "exited"]
    /\ UNCHANGED <<flowVars, rpcVars, consVars, disp, kcOut, dfmOut>>

\* Lines 146-157 of thread t: a ticket is generated and processed, the AI
\* result generated, and process_complete_ticket_flow called with them.
LoopFlow(t) ==
    /\ t \in LoopThreads
    /\ dash.loops[t] = "body"
    /\ dfmOut[t].op = "none"
    /\ dash' = [dash EXCEPT !.loops[t] = "flow"]
    /\ dfmOut' = [dfmOut EXCEPT ![t] = flow_begun(DemoTicket, DemoTicket, NoTicket)]
    /\ UNCHANGED <<flowVars, rpcVars, consVars, disp, kcOut>>

\* A fault of get_next_message, process_ticket or generate_response: the
\* loop has no handler, the thread ends and is_running stays as it is.
LoopFault(t) ==
    /\ t \in LoopThreads
    /\ dash.loops[t] = "body"
    /\ dash' = [dash EXCEPT !.loops[t] = "died"]
    /\ UNCHANGED <<flowVars, rpcVars, consVars, disp, kcOut, dfmOut>>

\* Lines 158-176 of thread t once its flow call has returned, whatever it
\* returned: messages_sent += 3, the processed ticket is stored (a fault
\* when the AI result lacks a member ends the thread), time.sleep(3).
LoopCount(t, fault) ==
    /\ t \in LoopThreads
    /\ dash.loops[t] = "flow"
    /\ dfmOut[t].op = "done"
    /\ dash.messages_sent < 3 * MaxBatches
    /\ dash' = [dash EXCEPT !.loops[t] = IF fault THEN "died" ELSE "sleep",
                            !.messages_sent = @ + 3]
    /\ dfmOut' = [dfmOut EXCEPT ![t] = NoFlow]
    /\ UNCHANGED <<flowVars, rpcVars, consVars, disp, kcOut>>

\* time.sleep(3) of thread t is over.
LoopWake(t) ==
    /\ t \in LoopThreads
    /\ dash.loops[t] = "sleep"
    /\ dash' = [dash EXCEPT !.loops[t] = "check"]
    /\ UNCHANGED <<flowVars, rpcVars, consVars, disp, kcOut, dfmOut>>

\* analyze_manual_message(message, force_escalation) on the UI thread up to
\* its process_complete_ticket_flow call: a blank message returns at once,
\* a fault of process_ticket or generate_response is raised to the caller.
AnalyzeManualMessage(blank, fault) ==
    /\ dash.ui = "idle"
    /\ dfmOut[0].op = "none"
    /\ dash' = [dash EXCEPT !.ui = CASE blank -> "returned_blank"
                                     [] ~blank /\ fault -> "raised"
                                     [] OTHER -> "flow"]
    /\ dfmOut' = IF blank \/ fault
                 THEN dfmOut
                 ELSE [dfmOut EXCEPT ![0] = flow_begun(ManualTicket, ManualTicket, NoTicket)]
    /\ UNCHANGED <<flowVars, rpcVars, consVars, disp, kcOut>>

\* Lines 308-338 once the flow call has returned: messages_sent += 3, the
\* processed ticket is stored and the analysis returned; a fault when the
\* AI result or the processed ticket lacks a member is raised to the caller.
ManualCount(fault) ==
    /\ dash.ui = "flow"
    /\ dfmOut[0].op = "done"
    /\ dash.messages_sent < 3 * MaxBatches
    /\ dash' = [dash EXCEPT !.ui = IF fault THEN "raised" ELSE "returned",
                            !.messages_sent = @ + 3]
    /\ dfmOut' = [dfmOut EXCEPT ![0] = NoFlow]
    /\ UNCHANGED <<flowVars, rpcVars, consVars, disp, kcOut>>

\* The UI thread is free for the next message.
ManualReturn ==
    /\ dash.ui \in {"returned_blank", "returned", "raised"}
    /\ dash' = [dash EXCEPT !.ui = "idle"]
    /\ UNCHANGED <<flowVars, rpcVars, consVars, disp, kcOut, dfmOut>>

\* SentimentDashboard(demo_mode): its DataFlowManager in either mode.
InitDash == FlowInit /\ RpcInit /\ ConsumeIdle /\ LateIdle

DashNext ==
    \/ StartDemo
    \/ StopDemo
    \/ \E t \in 1..MaxLoops : LoopCheck(t)
    \/ \E t \in 1..MaxLoops : LoopFlow(t)
    \/ \E t \in 1..MaxLoops : LoopFault(t)
    \/ \E c \in 0..MaxLoops : TicketFlowStep1(c)
    \/ \E c \in 0..MaxLoops : TicketFlowStep2(c)
    \/ \E c \in 0..MaxLoops : TicketFlowStep3(c)
    \/ \E t \in 1..MaxLoops, fault \in BOOLEAN : LoopCount(t, fault)
    \/ \E t \in 1..MaxLoops : LoopWake(t)
    \/ \E blank \in BOOLEAN, fault \in BOOLEAN : AnalyzeManualMessage(blank, fault)
    \/ \E fault \in BOOLEAN : ManualCount(fault)
    \/ ManualReturn

SpecDash == InitDash /\ [][DashNext]_vars

(***************************************************************************)
(* Properties of the ticket flow (specification SpecFlow)                  *)
(***************************************************************************)
FlowDone(i) == fpc[i] = "done"

\* Both the orchestrator and the transport adapter are in live mode.
Live == ~dfmDemo /\ ~kcDemo

\* The send recorded in r reached the channel (or was simulated as agreed).
SendSucceeded(r) == r.outcome \in {"delivered", "simulated", "demo"}

\* The send recorded in r met a transport fault.
SendFaulted(r) == r.outcome \in {"send_exception", "delivery_failed"}

\* The stage whose send function returned False in invocation i, 0 if none.
FailedStage(i) ==
    IF sent[i] # <<>> /\ ~Last(sent[i]).returned THEN Last(sent[i]).stage ELSE 0

\* C2: in live mode every transport send fault (encoding, produce/flush,
\* failed delivery report) makes the stage's send function return failure
\* and the whole flow return failure.
C2_SendFaultIsStageFailure ==
    \A i \in Flows : \A k \in 1..Len(sent[i]) :
        SendFaulted(sent[i][k]) =>
            /\ ~sent[i][k].returned
            /\ FlowDone(i) => ~fret[i]

\* C3: a stage's send is attempted only if every earlier stage's send
\* succeeded: a send that did not succeed is the last one of its invocation,
\* and the invocation returns failure.
C3_NoSendAfterFailedSend ==
    \A i \in Flows : \A k \in 1..Len(sent[i]) :
        ~SendSucceeded(sent[i][k]) =>
            /\ k = Len(sent[i])
            /\ FlowDone(i) => ~fret[i]

\* C4: a flow that returns True in live mode has produced each of its three
\* payloads to its channel without a fault.
C4_SuccessMeansAllDelivered ==
    \A i \in Flows :
        (Live /\ FlowDone(i) /\ fret[i]) =>
            \A s \in 1..3 : \E k \in 1..Len(sent[i]) :
                sent[i][k].stage = s /\ sent[i][k].outcome = "delivered"

\* C5: if stages 1 and 2 succeed and stage 3 fails, the flow returns failure;
\* stages 1 and 2 stay sent and every stage was sent at most once.
C5_Stage3FailureReturnsFailure ==
    \A i \in Flows :
        ( /\ FlowDone(i)
          /\ Len(sent[i]) = 3
          /\ SendSucceeded(sent[i][1])
          /\ SendSucceeded(sent[i][2])
          /\ ~SendSucceeded(sent[i][3]) ) =>
            /\ ~fret[i]
            /\ \A k \in 1..3 : sent[i][k].stage = k

\* C6: when process_complete_ticket_flow fails, the outcome the caller
\* receives identifies the failed stage: two invocations whose sends failed at
\* different stages return different outcomes.  The function returns the bare
\* boolean False at each of its three early returns, so this does not hold.
C6_OutcomeIdentifiesStage ==
    \A i, j \in Flows :
        ( /\ FlowDone(i) /\ FlowDone(j)
          /\ FailedStage(i) # 0 /\ FailedStage(j) # 0
          /\ FailedStage(i) # FailedStage(j) ) => fret[i] # fret[j]

\* C7: every step of the overall send sequence is one send of one
\* invocation, and it is that invocation's next stage in the order raw (1),
\* processed (2), AI-response (3); the sends of the other invocations are
\* untouched by it.
C7_SendsInStageOrder ==
    [][\A i \in Flows :
          sent'[i] # sent[i] =>
              /\ Len(sent'[i]) = Len(sent[i]) + 1
              /\ SubSeq(sent'[i], 1, Len(sent[i])) = sent[i]
              /\ Last(sent'[i]).stage = Len(sent[i]) + 1
              /\ Len(sent'[i]) <= 3
              /\ \A j \in Flows \ {i} : sent'[j] = sent[j]]_vars

\* C7 witness: a live flow has made all three sends while another flow,
\* started before the first one finished its sends, is between its own.
C7_Witness ==
    \E i, j \in Flows :
        /\ i # j
        /\ Live
        /\ Len(sent[i]) = 3 /\ sent[i][3].stage = 3
        /\ fpc[j] \in {"step2", "step3"} /\ Len(sent[j]) \in {1, 2}

(***************************************************************************)
(* Properties of the JSON-RPC processor (specification SpecRpc)            *)
(***************************************************************************)
\* A wire response object is well formed: version "2.0" and exactly one of
\* the members result and error.
WellFormedResponse(obj) ==
    /\ obj.jsonrpc = "2.0"
    /\ ("result" \in obj.members) # ("error" \in obj.members)

\* C1: handle_json_string gives back an encoded well-formed Response for
\* every input text and every behaviour of middleware and handlers; no
\* fault escapes to the caller.
C1_HandleAlwaysReturnsResponse ==
    rpcOut.op = "handle" =>
        /\ rpcOut.out.kind = "text"
        /\ WellFormedResponse(rpcOut.out.obj)

\* C8: a request whose params is neither a sequence, a mapping nor absent,
\* dispatched to a registered method, is answered with Invalid Params
\* (-32602) carrying the request's id, and the handler is not invoked.
C8_BadParamsShapeIsInvalidParams ==
    (rpcOut.op = "process" /\ rpcOut.out.fault = "shape") =>
        /\ ~rpcOut.out.resp.error.none
        /\ rpcOut.out.resp.error.code = INVALID_PARAMS
        /\ rpcOut.out.resp.id = rpcOut.req.id
        /\ ~rpcOut.out.invoked

\* C9: a request returned by parse_request has exactly the id that was on
\* the wire; without an id member it has none.
C9_ParsedRequestKeepsWireId ==
    (rpcOut.op = "parse" /\ rpcOut.out.kind = "request") =>
        rpcOut.out.req.id = GetId(rpcOut.text)

\* C10: a fault of the call's argument binding is answered with Invalid
\* Params (-32602); a fault raised while the handler executes, whatever its
\* kind, with Internal Error (-32603) whose message ends with the fault's
\* own message; both responses carry the request's id.
C10_CallFaultCodes ==
    rpcOut.op = "process" =>
        /\ rpcOut.out.fault = "binding" =>
              /\ rpcOut.out.resp.error.code = INVALID_PARAMS
              /\ rpcOut.out.resp.id = rpcOut.req.id
        /\ rpcOut.out.fault = "handler" =>
              /\ rpcOut.out.resp.error.code = INTERNAL_ERROR
              /\ Last(rpcOut.out.resp.error.message) = rpcOut.out.msg
              /\ rpcOut.out.resp.id = rpcOut.req.id

\* The request middleware k is handed when each middleware receives what the
\* one before it returned.
RECURSIVE ChainInput(_, _, _)
ChainInput(req, mws, k) ==
    IF k = 1 THEN req
    ELSE apply_middleware(mws[k - 1], ChainInput(req, mws, k - 1)).req

\* The position of the first middleware that faults on its input, 0 if none.
FirstFault(req, mws) ==
    LET F == {k \in 1..Len(mws) :
                 apply_middleware(mws[k], ChainInput(req, mws, k)).exc # "none"}
    IN IF F = {} THEN 0 ELSE CHOOSE k \in F : \A j \in F : k <= j

\* C11: dispatch applies the middleware in insertion order, each one on the
\* request the previous one returned; when one faults, no later middleware
\* and no handler runs and the response is Internal Error (-32603) carrying
\* the id of the dispatched request and the fault's message.
C11_MiddlewareChainAndFault ==
    rpcOut.op = "process" =>
        LET k == FirstFault(rpcOut.req, middleware) IN
        /\ k = 0 =>
              /\ rpcOut.out.ran = Len(middleware)
              /\ rpcOut.out.fault # "middleware"
        /\ k > 0 =>
              /\ rpcOut.out.ran = k
              /\ ~rpcOut.out.invoked
              /\ rpcOut.out.resp.error.code = INTERNAL_ERROR
              /\ rpcOut.out.resp.id = rpcOut.req.id
              /\ Last(rpcOut.out.resp.error.message) =
                    apply_middleware(middleware[k],
                                     ChainInput(rpcOut.req, middleware, k)).msg

\* A method member that is a string (the other wire values are arrays,
\* numbers, objects).
IsString(m) == m # "<array>"

\* The request that leaves the middleware chain towards the method lookup.
Dispatched(req, mws) == ChainInput(req, mws, Len(mws) + 1)

\* C12: a request that reaches the lookup naming a method that is not in
\* the registry is answered with Method Not Found (-32601) carrying the id
\* of the request as it was handed to dispatch, and no handler is invoked.
C12_UnregisteredMethodNotFound ==
    rpcOut.op = "process" =>
        LET r == Dispatched(rpcOut.req, middleware) IN
        ( /\ FirstFault(rpcOut.req, middleware) = 0
          /\ ~r.none
          /\ IsString(r.method)
          /\ r.method \notin DOMAIN methods ) =>
            /\ ~rpcOut.out.resp.error.none
            /\ rpcOut.out.resp.error.code = METHOD_NOT_FOUND
            /\ rpcOut.out.resp.result.none
            /\ rpcOut.out.resp.id = rpcOut.req.id
            /\ ~rpcOut.out.invoked

\* C12 witness: with another method registered, a request with a supplied
\* id naming an unregistered method has been dispatched and answered -32601.
C12_Witness ==
    /\ rpcOut.op = "process"
    /\ middleware = <<>>
    /\ DOMAIN methods # {}
    /\ rpcOut.req.method = "no.such.method"
    /\ rpcOut.req.id \in GivenIds
    /\ rpcOut.out.resp.error.code = METHOD_NOT_FOUND

\* A text that is syntactically valid JSON.
ValidJson(text) == text.k \notin {"garbage", "deep"}

\* C13: for every text that is not syntactically valid JSON, parse_request
\* returns an error Response (neither a Request nor an exception) with code
\* -32700 and no id.
C13_InvalidJsonIsParseError ==
    (rpcOut.op = "parse" /\ ~ValidJson(rpcOut.text)) =>
        /\ rpcOut.out.kind = "response"
        /\ rpcOut.out.resp.error.code = PARSE_ERROR
        /\ rpcOut.out.resp.id = IdNone

\* C14: for every valid JSON text whose value is not an object, has no
\* jsonrpc member or a version other than "2.0", parse_request returns an
\* error Response with code -32600, never a Request.
C14_BadVersionIsInvalidRequest ==
    ( /\ rpcOut.op = "parse"
      /\ ValidJson(rpcOut.text)
      /\ \/ rpcOut.text.k # "object"
         \/ "jsonrpc" \notin rpcOut.text.has
         \/ rpcOut.text.jsonrpc # "2.0" ) =>
        /\ rpcOut.out.kind = "response"
        /\ rpcOut.out.resp.error.code = INVALID_REQUEST

\* C15: every Request returned by create_request or parse_request has
\* version "2.0" and a method that is a non-empty string; a wire object
\* whose method is missing, empty or not a string is answered with -32600.
C15_RequestsAreWellFormed ==
    /\ (rpcOut.op \in {"parse", "create"} /\ rpcOut.out.kind = "request") =>
          /\ rpcOut.out.req.jsonrpc = "2.0"
          /\ IsString(rpcOut.out.req.method)
          /\ rpcOut.out.req.method # ""
    /\ ( /\ rpcOut.op = "parse"
         /\ rpcOut.text.k = "object"
         /\ \/ "method" \notin rpcOut.text.has
            \/ rpcOut.text.method = ""
            \/ ~IsString(rpcOut.text.method) ) =>
          /\ rpcOut.out.kind = "response"
          /\ rpcOut.out.resp.error.code = INVALID_REQUEST

\* C16: for every Request built by create_request (any method; params
\* absent, a sequence or a mapping; id supplied or generated), parsing its
\* to_json text, whatever uuid4 would draw during that parse, returns a
\* Request with the same method, params and id.
C16_EncodeParseRoundTrip ==
    rpcOut.op = "create" =>
        \A u \in 1..NUuids :
            LET back == parse_request(request_to_json(rpcOut.out.req), u) IN
            /\ back.kind = "request"
            /\ back.req.method = rpcOut.out.req.method
            /\ back.req.params = rpcOut.out.req.params
            /\ back.req.id = rpcOut.out.req.id

\* C16 witness: create_request was called without an id, with a mapping as
\* params, and the request carries a generated id.
C16_Witness ==
    /\ rpcOut.op = "create"
    /\ rpcOut.given = IdNone
    /\ rpcOut.out.req.id.t = "uuid"
    /\ rpcOut.out.req.params.t = "dict"

\* C17: a handler that dispatch invokes is called with no arguments when
\* params is absent, with the items of a sequence as positional arguments,
\* with the items of a mapping as named arguments; when it returns, the
\* Response's result is its return value and its id is the request's id.
C17_ArgumentsAndSuccess ==
    (rpcOut.op = "process" /\ rpcOut.out.invoked /\ rpcOut.out.fault = "none") =>
        LET r == Dispatched(rpcOut.req, middleware)
            res == rpcOut.out.resp.result
        IN
        /\ rpcOut.out.resp.error.none
        /\ rpcOut.out.resp.id = rpcOut.req.id
        /\ \/ res = NoResult
           \/ /\ ~res.none
              /\ res.by = r.method
              /\ r.params.t = "none" => (res.pos = <<>> /\ res.named = {})
              /\ r.params.t = "list" => (res.pos = r.params.pos /\ res.named = {})
              /\ r.params.t = "dict" => (res.pos = <<>> /\ res.named = r.params.named)

\* C17 witness: a handler was invoked positionally as (x, y) for the
\* params [x, y] and its return value came back under the request's id.
C17_Witness ==
    /\ rpcOut.op = "process"
    /\ rpcOut.out.invoked
    /\ rpcOut.req.params = ParamsList(<<"x", "y">>)
    /\ ~rpcOut.out.resp.result.none
    /\ rpcOut.out.resp.result.pos = <<"x", "y">>
    /\ rpcOut.out.resp.id = rpcOut.req.id

\* The Response values the last call of parse_request or process_request
\* produced.
ProducedResponses ==
    CASE rpcOut.op = "parse" /\ rpcOut.out.kind = "response" -> {rpcOut.out.resp}
      [] rpcOut.op = "process" -> {rpcOut.out.resp}
      [] OTHER -> {}

\* The wire objects of the Responses the last call produced.
ProducedWireObjects ==
    {response_to_dict(resp) : resp \in ProducedResponses}
        \cup (IF rpcOut.op = "handle" /\ rpcOut.out.kind = "text"
              THEN {rpcOut.out.obj} ELSE {})

\* C18 (as claimed): every Response produced by parse, dispatch and handle
\* has exactly one of result and error populated, and its wire encoding
\* contains exactly one of the members result and error.
C18_ExactlyOnePopulated ==
    /\ \A resp \in ProducedResponses : resp.result.none # resp.error.none
    /\ \A obj \in ProducedWireObjects :
          ("result" \in obj.members) # ("error" \in obj.members)

\* C18 (amended): no Response produced by parse, dispatch and handle has
\* both result and error populated; its wire encoding contains exactly one
\* of the members result and error, error exactly when error is populated,
\* so a success whose result is None is written with a null result.
C18_NeverBothAndOneMemberOnWire ==
    /\ \A resp \in ProducedResponses :
          /\ ~(~resp.result.none /\ ~resp.error.none)
          /\ ("error" \in response_to_dict(resp).members) = ~resp.error.none
    /\ \A obj \in ProducedWireObjects :
          /\ ("result" \in obj.members) # ("error" \in obj.members)
          /\ "error" \in obj.members => ~obj.error.none /\ obj.result.none
          /\ "result" \in obj.members => obj.error.none

\* C18 witness: dispatch produced a success Response for a handler that
\* returned None: neither result nor error is populated, the wire object
\* has the member result.
C18_Witness ==
    /\ rpcOut.op = "process"
    /\ rpcOut.out.invoked
    /\ rpcOut.out.resp.result.none
    /\ rpcOut.out.resp.error.none
    /\ "result" \in response_to_dict(rpcOut.out.resp).members

\* C19: a register_method call returns without error, binds the name to the
\* handler it was given, replacing the one the name had, and leaves every
\* other name's handler as it was; nothing else changes the registry; and
\* every dispatch that reaches the call invokes the handler the registry
\* holds for the name (the body runs exactly if that handler's signature
\* accepts the arguments).
C19_ReRegistrationOverwrites ==
    [][ /\ (rpcOut.op = "none" /\ rpcOut'.op = "register") =>
              /\ rpcOut'.out.kind = "none"
              /\ DOMAIN methods' = DOMAIN methods \cup {rpcOut'.name}
              /\ methods'[rpcOut'.name] = rpcOut'.handler
              /\ \A n \in DOMAIN methods \ {rpcOut'.name} : methods'[n] = methods[n]
        /\ rpcOut'.op # "register" => methods' = methods
        /\ (rpcOut.op # "process" /\ rpcOut'.op = "process") =>
              LET r == Dispatched(rpcOut'.req, middleware') IN
              ( /\ FirstFault(rpcOut'.req, middleware') = 0
                /\ ~r.none
                /\ IsString(r.method)
                /\ r.method \in DOMAIN methods'
                /\ r.params.t \in {"none", "list", "dict"} ) =>
                  rpcOut'.out.invoked = Binds(methods'[r.method], r.params)
      ]_vars

\* C19 witness: register_method has just replaced a name's handler by a
\* different one while another name is registered too.
C19_Witness ==
    /\ rpcOut.op = "register"
    /\ rpcOut.replaced # {}
    /\ rpcOut.replaced # {rpcOut.handler}
    /\ methods[rpcOut.name] = rpcOut.handler
    /\ DOMAIN methods # {rpcOut.name}

(***************************************************************************)
(* Properties of the consume loop (specification SpecConsume)              *)
(***************************************************************************)
\* A value none of the codecs at hand for the topic can decode: bytes that
\* are not UTF-8 or text that is not JSON, and a frame without the
\* deserializer that reads it.
DecodeFault(codec, value) ==
    \/ value.bytes = "bad_utf8"
    \/ value.bytes = "utf8" /\ ~ValidJson(value.text)
    \/ value.bytes \in {"avro", "avro_utf8"} /\ codec # "avro"
    \/ value.bytes = "avro_mock" /\ codec # "avro_mock"

\* The pass of the loop body logged a record at WARNING or ERROR.
LoggedFault(rec) ==
    \E n \in 1..Len(rec.log) : rec.log[n] \in {"error", "warning"}

\* C20: in live mode a polled message with a decode fault is logged and
\* does not reach the callback, the loop goes on polling, and every message
\* polled afterwards that is valid for the codec in use (a value
\* send_message writes) is handed to the callback.
C20_DecodeFaultSkippedLoopContinues ==
    \A k \in 1..Len(clog) :
        ( /\ clog[k].ev = "message"
          /\ DecodeFault(clog[k].codec, clog[k].value) ) =>
            /\ ~kcDemo
            /\ LoggedFault(clog[k])
            /\ ~clog[k].delivered
            /\ clog[k].next = "poll"
            /\ k = Len(clog) => cpc = "poll"
            /\ \A j \in (k + 1)..Len(clog) :
                  ( /\ clog[j].ev = "message"
                    /\ clog[j].value \in SentBy(clog[j].codec) ) =>
                      clog[j].delivered

\* C20 witness: the first polled message had a decode fault, the second is
\* a valid message and was delivered to the callback.
C20_Witness ==
    /\ Len(clog) >= 2
    /\ clog[1].ev = "message"
    /\ DecodeFault(clog[1].codec, clog[1].value)
    /\ clog[1].outcome = "skipped"
    /\ clog[2].ev = "message"
    /\ clog[2].value \in SentBy(clog[2].codec)
    /\ clog[2].outcome = "delivered"

\* C21: the loop is cancellable: once cancellation is requested (the
\* KeyboardInterrupt the code knows, wherever in an iteration it arrives) or
\* an unrecoverable transport fault is polled, the loop does not poll again
\* and the call has returned with the consumer closed.
C21_CancellationEndsLoop ==
    \A k \in 1..Len(clog) :
        clog[k].ev \in {"KeyboardInterrupt", "message_interrupted",
                        "consumer_error", "poll_exception"} =>
            /\ clog[k].next = "closed"
            /\ k = Len(clog)
            /\ cpc = "closed"

\* C26: a polled message is decoded with the structured codec when the
\* channel has one and it reads the value, otherwise as an RPC envelope when
\* the text is one, otherwise (text that is not an RPC envelope) as plain
\* text; in each case the decoded payload is given to the callback exactly
\* once, with metadata when it is a mapping.
C26_DecodeMirrorsSend ==
    \A k \in 1..Len(clog) :
        LET value == clog[k].value
            codec == clog[k].codec \in {"avro", "avro_mock"}
            structured == avro_deserialize(clog[k].codec, value)
            envelope == /\ DecodesAsUtf8(value)
                        /\ parse_request(value.text, 1).kind = "request"
            plain == json_decode(value)
            mapping == CASE codec /\ structured.kind = "data" -> structured.isDict
                         [] clog[k].codec = "jsonrpc" /\ envelope -> TRUE
                         [] OTHER -> plain.isDict
            decodes == \/ codec /\ structured.kind = "data"
                       \/ clog[k].codec = "jsonrpc" /\ envelope
                       \/ plain.kind = "data"
        IN
        (clog[k].ev = "message" /\ decodes) =>
            /\ clog[k].delivered
            /\ clog[k].metadata = mapping

(***************************************************************************)
(* Properties of demo mode (specification SpecDemo)                        *)
(***************************************************************************)
\* C22: with the KafkaClient in demo mode no send reaches the transport
\* (nothing is produced or flushed), consume_messages returns without
\* subscribing or polling and the callback is never invoked; every send of
\* a mapping reports success, so a flow called with three mappings returns
\* True after its three sends.
C22_DemoModeNoTransport ==
    kcDemo =>
        /\ \A i \in Flows : \A k \in 1..Len(sent[i]) :
              /\ sent[i][k].outcome \in {"demo", "simulated", "enrich_fault"}
              /\ sent[i][k].outcome # "enrich_fault" => sent[i][k].returned
        /\ \A i \in Flows :
              ( /\ FlowDone(i)
                /\ fin[i] = [raw |-> "dict", processed |-> "dict", ai |-> "dict"] ) =>
                  /\ fret[i]
                  /\ Len(sent[i]) = 3
        /\ cpc \in {"idle", "returned"}
        /\ clog = <<>>

\* C22 witness: under a live DataFlowManager whose KafkaClient is in demo
\* mode, a flow on three mappings has returned True with three simulated
\* sends, and consume_messages has returned.
C22_Witness ==
    /\ kcDemo /\ ~dfmDemo
    /\ cpc = "returned"
    /\ \E i \in Flows :
          /\ FlowDone(i) /\ fret[i]
          /\ Len(sent[i]) = 3
          /\ \A k \in 1..3 : sent[i][k].outcome = "simulated"

(***************************************************************************)
(* Properties of concurrent dispatch (specification SpecDispatch)          *)
(***************************************************************************)
\* The Response worker d's call produced is the one process_request gives
\* for its request when run alone on the processor.
SameAsAlone(w) ==
    w.out = {process_request(w.req, methods, middleware, w.beh).resp}

\* C23: with registration and middleware setup complete, under every
\* interleaving of the workers' steps each finished dispatch has the
\* Response it would produce alone, that Response carries the id of the
\* worker's own request, and no step changes the registry or the
\* middleware list.
C23_DispatchesDoNotInterfere ==
    [][ /\ methods' = methods
        /\ middleware' = middleware
        /\ \A d \in Workers :
              disp'[d].pc = "done" =>
                  /\ SameAsAlone(disp'[d])
                  /\ \A resp \in disp'[d].out : resp.id = disp'[d].req.id
      ]_vars

(***************************************************************************)
(* Properties of the escalation check (specification SpecEscalation)       *)
(***************************************************************************)
\* The ticket_data of the last escalation.check, read key by key.
SaysNegative(td) == "sentiment" \in td.has /\ td.sentiment = "negative"

GivenPolarity(td) == IF "polarity" \in td.has THEN td.polarity ELSE 0

HasUrgency(td) == "urgency_keywords" \in td.has /\ Len(td.urgency_keywords.items) > 0

\* C24: a returning escalation.check flags needs_escalation exactly when
\* (sentiment is "negative" and polarity < -0.3) or the urgency list is
\* non-empty; urgency alone triggers it; reasons.negative_sentiment and
\* reasons.urgency_keywords are true exactly for the disjunct that holds.
C24_EscalationFlag ==
    (rpcOut.op = "escalation" /\ ~rpcOut.out.raised) =>
        LET td == rpcOut.ticket_data
            out == rpcOut.out
            low == SaysNegative(td) /\ GivenPolarity(td) < -30
        IN
        /\ out.needs_escalation = (low \/ HasUrgency(td))
        /\ HasUrgency(td) => out.needs_escalation
        /\ out.reasons.negative_sentiment = low
        /\ out.reasons.urgency_keywords = HasUrgency(td)

\* Urgency alone: positive sentiment, polarity 0.4, one urgency keyword.
C24_Witness ==
    /\ rpcOut.op = "escalation"
    /\ rpcOut.ticket_data = TicketData(TicketKeys, "positive", 40, PyList(<<"urgent">>))
    /\ rpcOut.out.needs_escalation
    /\ ~rpcOut.out.reasons.negative_sentiment
    /\ rpcOut.out.reasons.urgency_keywords

\* C25: escalation_score is abs(polarity) when polarity is negative and 0
\* otherwise, whatever the sentiment label and the urgency keywords; it is
\* never negative.
C25_EscalationScore ==
    (rpcOut.op = "escalation" /\ ~rpcOut.out.raised) =>
        LET p == GivenPolarity(rpcOut.ticket_data)
            score == rpcOut.out.escalation_score
        IN
        /\ p < 0 => score = -p
        /\ p >= 0 => score = 0
        /\ score >= 0

\* Polarity -0.5 on a ticket that is not labelled negative scores 0.5.
C25_Witness ==
    /\ rpcOut.op = "escalation"
    /\ rpcOut.ticket_data = TicketData(TicketKeys, "neutral", -50, PyList(<<>>))
    /\ rpcOut.out.escalation_score = 50
    /\ ~rpcOut.out.needs_escalation

(***************************************************************************)
(* Properties of the live send path (specification SpecSend)               *)
(***************************************************************************)
\* name is "kafka." followed by the topic with every hyphen turned into an
\* underscore.
DerivedFromChannel(name, topic) ==
    /\ Len(name) = 6 + Len(topic)
    /\ SubSeq(name, 1, 6) = <<"k", "a", "f", "k", "a", ".">>
    /\ \A i \in 1..Len(topic) :
          name[6 + i] = (IF topic[i] = "-" THEN "_" ELSE topic[i])

\* The value is plain text: the payload itself, not wrapped in a Request.
IsPlainText(value) == value.bytes = "utf8" /\ "jsonrpc" \notin value.text.has

\* The encoding the settings choose for a send: the channel's structured
\* codec, the RPC Request wrapper, or plain text.
ChosenEncoding ==
    LET c == kcOut.cfg IN
    /\ (c.sr /\ c.serializer \in {"ok", "mock"}) =>
          /\ kcOut.encoding = "avro"
          /\ kcOut.value.bytes \in {"avro", "avro_utf8", "avro_mock"}
    /\ (c.sr /\ c.serializer \in {"faults", "none"}) =>
          kcOut.encoding = "json" /\ IsPlainText(kcOut.value)
    /\ (~c.sr /\ c.rpc) =>
          /\ kcOut.encoding = "jsonrpc"
          /\ kcOut.value.bytes = "utf8"
          /\ {"jsonrpc", "method", "params"} \subseteq kcOut.value.text.has
          /\ kcOut.method # <<>> => kcOut.value.text.method = kcOut.method
          /\ kcOut.method = <<>> =>
                DerivedFromChannel(kcOut.value.text.method, kcOut.topic)
    /\ (~c.sr /\ ~c.rpc) =>
          kcOut.encoding = "json" /\ IsPlainText(kcOut.value)

\* The codec registered for the channel faulted on the payload.
CodecFaulted ==
    /\ kcOut.cfg.sr
    /\ \/ kcOut.cfg.serializer = "faults"
       \/ kcOut.cfg.serializer = "mock" /\ ~kcOut.message.serializable

\* C27: a live send gives each payload exactly one encoding: the channel's
\* structured codec when the schema registry is active, plain text when no
\* codec is registered for the channel or the codec faults; otherwise an
\* RPC Request whose method is the hint or, without a hint, the default
\* derived from the channel name when RPC wrapping is on; otherwise plain
\* text.  A codec fault alone never makes the send fail.
C27_SendEncoding ==
    kcOut.op = "send" =>
        /\ ChosenEncoding
        /\ (CodecFaulted /\ kcOut.cond = "ok") => kcOut.outcome = "delivered"

\* C27 (amended): the above holds for each payload that plain text (JSON)
\* can write.  A payload it cannot write gets a value only from a structured
\* codec that can write it; otherwise no encoding is applied, nothing is
\* produced and the send ends in the logged fault, also after a codec fault.
C27_WritablePayloadEncoding ==
    kcOut.op = "send" =>
        /\ kcOut.message.serializable =>
              /\ ChosenEncoding
              /\ (CodecFaulted /\ kcOut.cond = "ok") => kcOut.outcome = "delivered"
        /\ ~kcOut.message.serializable =>
              IF kcOut.cfg.sr /\ kcOut.cfg.serializer = "ok"
              THEN kcOut.encoding = "avro" /\ kcOut.value \in {AvroBytes, AvroUtf8Bytes}
              ELSE kcOut.encoding = "none" /\ kcOut.outcome = "send_exception"

\* An RPC-wrapped send of a writable payload without a hint on a channel
\* whose name has a hyphen.
C27_Witness ==
    /\ kcOut.op = "send"
    /\ kcOut.message.serializable
    /\ ~kcOut.cfg.sr /\ kcOut.cfg.rpc
    /\ kcOut.method = <<>>
    /\ kcOut.topic = <<"a", "i", "-", "r", "e", "s", "p", "o", "n", "s", "e", "s">>
    /\ kcOut.encoding = "jsonrpc"
    /\ kcOut.value.text.method =
          <<"k", "a", "f", "k", "a", ".", "a", "i", "_", "r", "e", "s", "p", "o", "n", "s", "e", "s">>
    /\ kcOut.outcome = "delivered"

(***************************************************************************)
(* Properties of the flow's messages (specification SpecTicket)            *)
(***************************************************************************)
\* C28: the messages one process_complete_ticket_flow call sends are
\* correlated by one ticket identifier: key and ticket_id of the raw, the
\* processed and the AI-response send all equal the raw ticket's ticket_id,
\* whatever ticket_id the processed ticket or the AI response came with.
C28_OneTicketIdPerFlow ==
    \A c \in Callers :
        (dfmOut[c].op # "none" /\ dfmOut[c].raw.has) =>
            \A k \in 1..Len(dfmOut[c].sends) :
                /\ dfmOut[c].sends[k].key = dfmOut[c].raw.id
                /\ dfmOut[c].sends[k].has
                /\ dfmOut[c].sends[k].ticket_id = dfmOut[c].raw.id

(***************************************************************************)
(* Properties of the registry under dispatch (specification SpecRegistry)  *)
(***************************************************************************)
\* Worker d dispatches a name that was registered when its call began and
\* that no middleware has rewritten.
DispatchesRegisteredName(w) ==
    /\ w.pc \in {"middleware", "lookup", "call"}
    /\ w.registered
    /\ ~w.cur.none
    /\ w.cur.method = w.req.method

\* C29: the registry only grows, so a dispatch of a name whose
\* register_method call has completed finds a handler at the lookup that
\* follows the existence check, however further register_method calls
\* interleave, and never answers -32601 Method not found.
C29_RegisteredNameIsFound ==
    [][ /\ DOMAIN methods \subseteq DOMAIN methods'
        /\ \A d \in Workers :
              DispatchesRegisteredName(disp[d]) =>
                  /\ disp'[d].pc = "lookup" => disp'[d].cur.method \in DOMAIN methods'
                  /\ disp'[d].fault \notin {"not_found", "outer"}
                  /\ \A resp \in disp'[d].out : resp.error.code # METHOD_NOT_FOUND
      ]_vars

\* A worker is between the existence check and the lookup of a name that a
\* further register_method call has just given another handler.
C29_Witness ==
    \E d \in Workers :
        /\ disp[d].pc = "lookup"
        /\ disp[d].registered
        /\ rpcOut.op = "register"
        /\ rpcOut.name = disp[d].cur.method
        /\ rpcOut.replaced # {}
        /\ rpcOut.handler \notin rpcOut.replaced

(***************************************************************************)
(* Properties of the dashboard's demo loop (specification SpecDash)        *)
(***************************************************************************)
\* The threads that are inside the demo loop: past the `while` test, sending
\* a ticket or sleeping before the next one.
LoopsRunning == { t \in LoopThreads : dash.loops[t] \in {"body", "flow", "sleep"} }

\* C30: whatever the sequence of start_demo and stop_demo calls, at most one
\* demo loop thread generates tickets and drives
\* process_complete_ticket_flow at any time.
C30_AtMostOneDemoLoop ==
    Cardinality(LoopsRunning) <= 1

====
